---- MODULE Spec2Model ----
(***************************************************************************)
(* Model of the image manager of the daemon (daemon/mgr image manager and  *)
(* the HTTP bridge in apis/server/image_bridge.go).                        *)
(*                                                                         *)
(* A string is a finite sequence of characters; a character is a TLA+      *)
(* string that is never looked into ("reg", ".", "/", ":", "@", ...).      *)
(* Go's 0-based indexes with -1 for "absent" are written 1-based with 0    *)
(* for "absent".  A value that the code computes once and uses many times  *)
(* is the parameter of the operator that models the code that follows.     *)
(***************************************************************************)
EXTENDS Integers, Sequences, FiniteSets, TLC

VARIABLES
    primaryRefs,   \* localStore: image ID -> set of primary references (strings)
    searchRefs,    \* localStore: image ID -> set of searchable references (strings)
    idByRef,       \* localStore: reference string -> image ID (reverse lookup)
    metadata,      \* localStore: image ID -> CtrdImageInfo (cache)
    remote,        \* containerd metadata: image name -> image ID of its content
    last,          \* the last completed call of the image manager and its result
    calls,         \* the number of calls of the image manager so far
    tagged,        \* history: the tags that AddTag created, with the image ID
                   \* registered and the image ID of the source
    pure,          \* the call of a function that reads no reference of the
                   \* store but its arguments: the arguments, then the result
    threads        \* the calls that run at the same time, each with the
                   \* place it has reached and its local variables

storeVars == <<primaryRefs, searchRefs, idByRef, metadata, remote>>
vars ==
    <<primaryRefs, searchRefs, idByRef, metadata, remote, last, calls, tagged, pure, threads>>

(***************************************************************************)
(* Strings                                                                 *)
(***************************************************************************)
RECURSIVE IndexFrom(_, _, _)
\* the first index of c in s at or after i, 0 if there is none
IndexFrom(s, c, i) ==
    IF i > Len(s) THEN 0
    ELSE IF s[i] = c THEN i
    ELSE IndexFrom(s, c, i + 1)

RECURSIVE LastIndexFrom(_, _, _)
\* the last index of c in s at or before i, 0 if there is none
LastIndexFrom(s, c, i) ==
    IF i < 1 THEN 0
    ELSE IF s[i] = c THEN i
    ELSE LastIndexFrom(s, c, i - 1)

IndexRune(s, c) == IndexFrom(s, c, 1)
LastIndex(s, c) == LastIndexFrom(s, c, Len(s))

ContainsAny(s, cs) == \E i \in 1..Len(s) : s[i] \in cs

HasPrefix(s, p) == Len(p) <= Len(s) /\ SubSeq(s, 1, Len(p)) = p

RECURSIVE SplitFrom(_, _)
\* the "/"-separated elements of s, empty ones included; i is the first "/"
SplitFrom(s, i) ==
    IF i = 0 THEN <<s>>
    ELSE <<SubSeq(s, 1, i - 1)>>
             \o SplitFrom(SubSeq(s, i + 1, Len(s)), IndexRune(SubSeq(s, i + 1, Len(s)), "/"))

Split(s) == SplitFrom(s, IndexRune(s, "/"))

RECURSIVE JoinSlash(_)
JoinSlash(elems) ==
    IF Len(elems) = 0 THEN <<>>
    ELSE IF Len(elems) = 1 THEN elems[1]
    ELSE elems[1] \o <<"/">> \o JoinSlash(Tail(elems))

RECURSIVE CleanElems(_, _, _)
\* path.Clean on the elements of a path: out is the cleaned prefix so far
CleanElems(elems, out, rooted) ==
    IF Len(elems) = 0 THEN out
    ELSE IF elems[1] = <<>> \/ elems[1] = <<".">> THEN CleanElems(Tail(elems), out, rooted)
    ELSE IF elems[1] # <<".", ".">> THEN CleanElems(Tail(elems), Append(out, elems[1]), rooted)
    ELSE IF Len(out) > 0 /\ out[Len(out)] # <<".", ".">>
         THEN CleanElems(Tail(elems), SubSeq(out, 1, Len(out) - 1), rooted)
    ELSE IF rooted THEN CleanElems(Tail(elems), out, rooted)
    ELSE CleanElems(Tail(elems), Append(out, elems[1]), rooted)

\* the cleaned path of the cleaned elements body
CleanedPath(rooted, body) ==
    IF rooted THEN <<"/">> \o body
    ELSE IF body = <<>> THEN <<".">> ELSE body

PathClean(s) ==
    IF s = <<>> THEN <<".">>
    ELSE CleanedPath(s[1] = "/", JoinSlash(CleanElems(Split(s), <<>>, s[1] = "/")))

\* path.Join of two elements: empty elements are ignored, the result is cleaned
PathJoin(a, b) ==
    IF a = <<>> /\ b = <<>> THEN <<>>
    ELSE PathClean(IF a = <<>> THEN b ELSE IF b = <<>> THEN a ELSE a \o <<"/">> \o b)

(***************************************************************************)
(* Daemon configuration and the names used in the bounded universe         *)
(***************************************************************************)
DefaultRegistry == <<"reg", ".", "io">>
DefaultNamespace == <<"lib">>
OtherRegistry == <<"x", ".", "io">>
Mirror1 == <<"m1", ".", "io">>
Mirror2 == <<"m2", ".", "io">>
\* RegistryMirrors of the running daemon
RegistryMirrors == <<Mirror1, Mirror2>>

DefaultTag == <<"latest">>
HexChars == {"a", "b", "c", "d"}
DigestHeader == <<"sha256", ":">>

\* image IDs (config digests); "a" is a short ID of both ID1 and ID2
ID1 == DigestHeader \o <<"a", "a">>
ID2 == DigestHeader \o <<"a", "b">>
ID3 == DigestHeader \o <<"b", "a">>
ID4 == DigestHeader \o <<"b", "b">>
AllIDs == {ID1, ID2, ID3, ID4}

\* img.Target().Digest: the manifest digest of the image with config digest id
TargetDigest(id) == DigestHeader \o <<"c", id[Len(id)], id[Len(id) - 1]>>

Hex(d) == SubSeq(d, Len(DigestHeader) + 1, Len(d))

\* a well-formed digest: the header and as many hex characters as a manifest digest has
IsDigest(d) ==
    /\ HasPrefix(d, DigestHeader)
    /\ Len(d) = Len(TargetDigest(ID1))
    /\ \A i \in (Len(DigestHeader) + 1)..Len(d) : d[i] \in HexChars

(***************************************************************************)
(* pkg/reference                                                           *)
(***************************************************************************)
NoRef == [err |-> TRUE, name |-> <<>>, tag |-> <<>>, dig |-> <<>>]

\* the parts of a reference are well formed; elems are the elements of the name
ParseOK(name, tag, dig, hasTag, hasDig, elems) ==
    /\ name # <<>>
    /\ \A i \in 1..Len(elems) : elems[i] # <<>>
    /\ \A i \in 2..Len(elems) : ~ContainsAny(elems[i], {":"})
    /\ ~ContainsAny(name, {"@"})
    /\ hasTag => (tag # <<>> /\ ~ContainsAny(tag, {"/", ":", "@"}))
    /\ hasDig => IsDigest(dig)

ParseParts(name, tag, dig, hasTag, hasDig) ==
    IF ParseOK(name, tag, dig, hasTag, hasDig, Split(name))
    THEN [err |-> FALSE, name |-> name, tag |-> tag, dig |-> dig]
    ELSE NoRef

\* the tag is what follows the last ':' after the last '/'
ParseNameTag(nameTag, dig, hasDig, slash, colon) ==
    IF colon > slash
    THEN ParseParts(SubSeq(nameTag, 1, colon - 1), SubSeq(nameTag, colon + 1, Len(nameTag)),
                    dig, TRUE, hasDig)
    ELSE ParseParts(nameTag, <<>>, dig, FALSE, hasDig)

\* at is the index of the '@' that starts the digest
ParseAt(s, at) ==
    IF at = 0
    THEN ParseNameTag(s, <<>>, FALSE, LastIndex(s, "/"), LastIndex(s, ":"))
    ELSE ParseNameTag(SubSeq(s, 1, at - 1), SubSeq(s, at + 1, Len(s)), TRUE,
                      LastIndex(SubSeq(s, 1, at - 1), "/"),
                      LastIndex(SubSeq(s, 1, at - 1), ":"))

\* reference.Parse: name[:tag][@digest]
Parse(s) == ParseAt(s, IndexRune(s, "@"))

\* Named.String()
RefString(ref) ==
    ref.name \o (IF ref.tag = <<>> THEN <<>> ELSE <<":">> \o ref.tag)
             \o (IF ref.dig = <<>> THEN <<>> ELSE <<"@">> \o ref.dig)

IsNamedOnly(ref) == ref.tag = <<>> /\ ref.dig = <<>>
IsNameTagged(ref) == ref.tag # <<>>
IsDigested(ref) == ref.dig # <<>>

WithDefaultTagIfMissing(ref) ==
    IF IsNamedOnly(ref) THEN [ref EXCEPT !.tag = DefaultTag] ELSE ref

\* a reference with both a tag and a digest keeps the digest only
TrimTagForDigest(ref) ==
    IF ref.tag # <<>> /\ ref.dig # <<>> THEN [ref EXCEPT !.tag = <<>>] ELSE ref

WithDigest(ref, dig) == [ref EXCEPT !.tag = <<>>, !.dig = dig]

\* the locator of a reference string: its name without tag and digest
Locator(s) == Parse(s).name

\* uniqueLocatorReference: all the references have the same locator
uniqueLocatorReference(refs) ==
    \A r1 \in refs, r2 \in refs : Locator(r1) = Locator(r2)

\* the default namespace goes before a remainder of one element in the default registry
WithDefaultNamespace(registry, remainder) ==
    IF registry = DefaultRegistry /\ ~ContainsAny(remainder, {"/"})
    THEN registry \o <<"/">> \o DefaultNamespace \o <<"/">> \o remainder
    ELSE registry \o <<"/">> \o remainder

\* idx is the index of the first '/'
QualifyAt(ref, idx) ==
    IF idx # 0 /\ ContainsAny(SubSeq(ref, 1, idx - 1), {".", ":"})
    THEN WithDefaultNamespace(SubSeq(ref, 1, idx - 1), SubSeq(ref, idx + 1, Len(ref)))
    ELSE WithDefaultNamespace(DefaultRegistry, ref)

\* addDefaultRegistryIfMissing: qualify ref with the default registry and namespace
addDefaultRegistryIfMissing(ref) == QualifyAt(ref, IndexRune(ref, "/"))

(***************************************************************************)
(* LookupImageReferences                                                   *)
(***************************************************************************)
\* the domain field and the remainder of ref; idx is the index of the first '/'
LookupDomain(ref, idx) ==
    IF idx # 0 /\ ContainsAny(SubSeq(ref, 1, idx - 1), {".", ":"})
    THEN [registry |-> SubSeq(ref, 1, idx - 1), remainder |-> SubSeq(ref, idx + 1, Len(ref))]
    ELSE [registry |-> <<>>, remainder |-> ref]

\* the mirrors in the order of the list that is the opposite of the configured one
MirrorRefs_Reversed(mirrors, ref) ==
    [i \in 1..Len(mirrors) |-> PathJoin(mirrors[Len(mirrors) - i + 1], ref)]

\* the references of ref in the registry mirrors
MirrorRefs(mirrors, ref) == [i \in 1..Len(mirrors) |-> PathJoin(mirrors[i], ref)]

\* the default namespace before every remainder of one element
AttachNamespace_AnyRegistry(registry, remainder) ==
    IF ~ContainsAny(remainder, {"/"})
    THEN DefaultNamespace \o <<"/">> \o remainder
    ELSE remainder

\* the remainder, with the default namespace if the registry is the default one
AttachNamespace(registry, remainder) ==
    IF registry = DefaultRegistry /\ ~ContainsAny(remainder, {"/"})
    THEN DefaultNamespace \o <<"/">> \o remainder
    ELSE remainder

\* d is the domain field and the remainder of ref
LookupFullRefs(mirrors, ref, d) ==
    IF d.registry = <<>>
    THEN MirrorRefs(mirrors, ref)
             \o <<DefaultRegistry \o <<"/">> \o AttachNamespace(DefaultRegistry, d.remainder)>>
    ELSE <<d.registry \o <<"/">> \o AttachNamespace(d.registry, d.remainder)>>

\* mirrors is mgr.RegistryMirrors; the result is fullRefs
LookupImageReferences(mirrors, ref) ==
    LookupFullRefs(mirrors, ref, LookupDomain(ref, IndexRune(ref, "/")))

(***************************************************************************)
(* The local reference store (imageStore).  A store value st is a record   *)
(* of its four maps: p (primaryRefs), s (searchRefs), r (idByRef) and      *)
(* m (metadata).                                                           *)
(***************************************************************************)
\* the image IDs the registries of the bounded universe can serve
IDs == {ID1, ID2}

\* OCISpec.Created of the image: seconds and nanoseconds
Created(id) ==
    IF id = ID1 THEN [sec |-> 1, nsec |-> 0]
    ELSE IF id = ID2 THEN [sec |-> 1, nsec |-> 0]
    ELSE IF id = ID3 THEN [sec |-> 2, nsec |-> 0]
    ELSE [sec |-> 2, nsec |-> 5]

EmptyStore ==
    [p |-> [id \in AllIDs |-> {}], s |-> [id \in AllIDs |-> {}], r |-> <<>>, m |-> <<>>]

TheStore == [p |-> primaryRefs, s |-> searchRefs, r |-> idByRef, m |-> metadata]

GetPrimaryReferences(st, id) == st.p[id]
GetReferences(st, id) == st.p[id] \cup st.s[id]

\* the IDs that have a reference
idSet(st) == {id \in AllIDs : GetReferences(st, id) # {}}

\* the IDs that the string is an ID or a short ID of
searchIDs(st, str) ==
    {id \in idSet(st) : str # <<>> /\ (HasPrefix(id, str) \/ HasPrefix(Hex(id), str))}

\* hits: the IDs that the string str of ref is an ID or a short ID of
SearchHits(st, ref, str, hits) ==
    IF Cardinality(hits) > 1 THEN [err |-> "ErrAmbiguous", id |-> <<>>, ref |-> ref]
    ELSE IF Cardinality(hits) = 1
    THEN [err |-> "nil", id |-> CHOOSE id \in hits : TRUE, ref |-> ref]
    ELSE IF str \in DOMAIN st.r THEN [err |-> "nil", id |-> st.r[str], ref |-> ref]
    ELSE [err |-> "ErrNotfound", id |-> <<>>, ref |-> ref]

\* Search: by ID or short ID first, then the exact reverse lookup
Search(st, ref) ==
    SearchHits(st, ref, RefString(ref),
               IF IsDigested(ref) THEN {} ELSE searchIDs(st, RefString(ref)))

\* AddReference(id, primaryRef, ref): ref is primary when it is primaryRef
\* itself; primaryRef and ref are the strings of the references
AddReference(st, id, primaryRef, ref) ==
    IF ref \in DOMAIN st.r /\ st.r[ref] # id THEN [err |-> "ErrUsed", st |-> st]
    ELSE IF primaryRef = ref
    THEN [err |-> "nil",
          st |-> [st EXCEPT !.p[id] = @ \cup {ref}, !.s[id] = @ \ {ref},
                            !.r = (ref :> id) @@ @]]
    ELSE [err |-> "nil",
          st |-> [st EXCEPT !.s[id] = IF ref \in st.p[id] THEN @ ELSE @ \cup {ref},
                            !.r = (ref :> id) @@ @]]

\* the store without the references gone of id, which keeps p1 and s1
RemoveReferences(st, id, p1, s1, gone) ==
    [st EXCEPT !.p[id] = p1, !.s[id] = s1,
               !.r = [x \in (DOMAIN st.r) \ gone |-> st.r[x]]]

\* RemoveReference(id, ref): no-op if absent; the references that remain for an
\* ID without primary reference are purged with its last primary reference
RemoveReference(st, id, ref) ==
    IF ref \notin GetReferences(st, id) THEN st
    ELSE IF st.p[id] \ {ref} = {}
    THEN RemoveReferences(st, id, {}, {}, GetReferences(st, id))
    ELSE RemoveReferences(st, id, st.p[id] \ {ref}, st.s[id] \ {ref}, {ref})

\* GetPrimaryReference(ref): the primary references that share the ID of ref
\* (ref itself when it is primary); the store returns one of them
GetPrimaryReference(st, ref) ==
    IF ref \notin DOMAIN st.r THEN {}
    ELSE IF ref \in st.p[st.r[ref]] THEN {ref}
    ELSE st.p[st.r[ref]]

CacheCtrdImageInfo(st, id, info) == [st EXCEPT !.m = (id :> info) @@ @]
ClearCtrdImageInfo(st, id) == [st EXCEPT !.m = [x \in (DOMAIN st.m) \ {id} |-> st.m[x]]]
ListCtrdImageInfo(st) == {st.m[id] : id \in DOMAIN st.m}

(***************************************************************************)
(* CheckReference                                                          *)
(***************************************************************************)
NoResult(e) == [err |-> e, id |-> <<>>, ref |-> NoRef, prims |-> {}]

\* refs: the primary references that the match found can stand for
CheckPrimaryOf(found, refs) ==
    IF refs = {} THEN [err |-> "ErrNotfound", id |-> found.id, ref |-> found.ref, prims |-> {}]
    ELSE [err |-> "nil", id |-> found.id, ref |-> found.ref, prims |-> refs]

\* the reference that matched is returned as the primary reference
CheckPrimary_Matched(st, found) ==
    [err |-> "nil", id |-> found.id, ref |-> found.ref, prims |-> {RefString(found.ref)}]

\* what follows a successful Search: the primary reference(s) of the match
CheckPrimary(st, found) ==
    IF IsNamedOnly(found.ref) \/ HasPrefix(found.id, RefString(found.ref))
    THEN CheckPrimaryOf(found, GetPrimaryReferences(st, found.id))
    ELSE CheckPrimaryOf(found, GetPrimaryReference(st, RefString(found.ref)))

\* second: the result of the search for the reference with the default registry
CheckSecond(st, second) ==
    IF second.err # "nil" THEN NoResult(second.err) ELSE CheckPrimary(st, second)

\* namedRef: the parsed reference with the default registry
CheckQualified(st, namedRef) ==
    IF namedRef.err THEN NoResult("ErrInvalidReference")
    ELSE CheckSecond(st, Search(st, namedRef))

\* newIDOrRef: idOrRef with the default registry and namespace
CheckDefaulted(st, idOrRef, newIDOrRef) ==
    IF newIDOrRef = idOrRef THEN NoResult("ErrNotfound")
    ELSE CheckQualified(st, Parse(newIDOrRef))

\* the second search follows any error of the first
CheckFirst_AnyError(st, idOrRef, first) ==
    IF first.err = "nil" THEN CheckPrimary(st, first)
    ELSE CheckDefaulted(st, idOrRef, addDefaultRegistryIfMissing(idOrRef))

\* first: the result of the search for the reference as given
CheckFirst(st, idOrRef, first) ==
    IF first.err = "nil" THEN CheckPrimary(st, first)
    ELSE IF first.err # "ErrNotfound" THEN NoResult(first.err)
    ELSE CheckDefaulted(st, idOrRef, addDefaultRegistryIfMissing(idOrRef))

CheckParsed(st, idOrRef, namedRef) ==
    IF namedRef.err THEN NoResult("ErrInvalidReference")
    ELSE CheckFirst(st, idOrRef, Search(st, namedRef))

\* the result is (actualID, actualRef, primaryRef, err); prims holds the
\* values primaryRef can take
CheckReference(st, idOrRef) == CheckParsed(st, idOrRef, Parse(idOrRef))

(***************************************************************************)
(* The remote content client (containerd): remote maps the image names of  *)
(* its metadata to the image ID of their content.  A value rs of it is a   *)
(* function of names.                                                      *)
(***************************************************************************)
ClientRemoveImage(rs, name) == [x \in (DOMAIN rs) \ {name} |-> rs[x]]
ClientCreateImage(rs, name, id) == (name :> id) @@ rs

\* the name under which the client records a pulled image: the candidate of
\* the default registry, default-tagged, without tag when it has a digest
PulledName(fullRefs) ==
    RefString(TrimTagForDigest(WithDefaultTagIfMissing(Parse(fullRefs[Len(fullRefs)]))))

(***************************************************************************)
(* StoreImageReference / addReferenceIntoStore                             *)
(***************************************************************************)
\* the digest reference is added although the primary reference was not
addDigestReference_IgnoreError(r1, id, ref, digRef) ==
    IF IsNameTagged(ref) /\ Search(r1.st, digRef).err = "ErrNotfound"
    THEN AddReference(r1.st, id, RefString(ref), RefString(digRef))
    ELSE r1

\* Name@Digest is never added
addDigestReference_Never(r1, id, ref, digRef) == r1

\* a Name@Digest that is in the store already is an error
addDigestReference_FoundIsError(r1, id, ref, digRef) ==
    IF r1.err # "nil" \/ ~IsNameTagged(ref) THEN r1
    ELSE IF Search(r1.st, digRef).err = "ErrNotfound"
    THEN AddReference(r1.st, id, RefString(ref), RefString(digRef))
    ELSE [err |-> "ErrUsed", st |-> r1.st]

\* r1: the result of the addition of the primary reference ref; digRef: Name@Digest
addDigestReference(r1, id, ref, digRef) ==
    IF r1.err # "nil" THEN r1
    ELSE IF IsNameTagged(ref) /\ Search(r1.st, digRef).err = "ErrNotfound"
    THEN AddReference(r1.st, id, RefString(ref), RefString(digRef))
    ELSE r1

\* ref is a parsed reference, dig the manifest digest
addReferenceIntoStore(st, id, ref, dig) ==
    addDigestReference(AddReference(st, id, RefString(ref), RefString(ref)), id, ref,
                       WithDigest(ref, dig))

CtrdImageInfo(id) == [ID |-> id, Created |-> Created(id)]

\* the metadata is cached whatever addReferenceIntoStore returned
StoreImageReferenceCache_Always(r1, img) ==
    [err |-> r1.err, st |-> CacheCtrdImageInfo(r1.st, img.id, CtrdImageInfo(img.id))]

\* r1: the result of addReferenceIntoStore
StoreImageReferenceCache(r1, img) ==
    IF r1.err # "nil" THEN r1
    ELSE [err |-> "nil", st |-> CacheCtrdImageInfo(r1.st, img.id, CtrdImageInfo(img.id))]

StoreImageReferenceParsed(st, img, namedRef) ==
    IF namedRef.err THEN [err |-> "ErrInvalidReference", st |-> st]
    ELSE StoreImageReferenceCache(
             addReferenceIntoStore(st, img.id, namedRef, TargetDigest(img.id)), img)

\* img is [name, id]: img.Name() and the digest of img.Config()
StoreImageReferenceOp(st, img) == StoreImageReferenceParsed(st, img, Parse(img.name))

SetStore(st) ==
    /\ primaryRefs' = st.p
    /\ searchRefs' = st.s
    /\ idByRef' = st.r
    /\ metadata' = st.m

StoreImageReferenceDone(name, r) ==
    /\ SetStore(r.st)
    /\ last' = [op |-> "StoreImageReference", arg |-> name, err |-> r.err]

\* StoreImageReference of an image the client lists (bootstrap, load)
StoreImageReference(name) ==
    /\ name \in DOMAIN remote
    /\ StoreImageReferenceDone(
           name, StoreImageReferenceOp(TheStore, [name |-> name, id |-> remote[name]]))
    /\ UNCHANGED <<remote, tagged, pure, threads>>

(***************************************************************************)
(* The inputs of the bounded universe                                      *)
(***************************************************************************)
Str_u == <<"u">>
Str_ut == <<"u", ":", "t">>
Str_full_ut == DefaultRegistry \o <<"/">> \o DefaultNamespace \o <<"/", "u", ":", "t">>
Str_x_ut == OtherRegistry \o <<"/", "u", ":", "t">>
Str_u_dig1 == <<"u", "@">> \o TargetDigest(ID1)
Str_short == <<"a">>
Str_bad == <<"u", ":">>

\* what the transfer and the post-pull hook of a pull do
PullOutcomes == {"ok", "pullFail", "cancel", "hookFail"}
\* the references a pull is asked for
PullRefs == {Str_ut, Str_x_ut, Str_u_dig1, Str_bad}
\* the targets of a tag
TagTargets == {Str_ut, Str_x_ut, Str_u_dig1}
\* the sources of a tag
TagSources == {Str_ut, Str_x_ut, Str_short}
\* the ID-or-reference arguments of a removal
IdOrRefs == {Str_ut, Str_x_ut, Str_u_dig1, Str_short, ID1, Str_bad}

(***************************************************************************)
(* PullImage                                                               *)
(***************************************************************************)
\* stream: what the progress stream was sent; steps: the calls made, in order
PullImageLast(ref, outcome, err, stream, steps, events) ==
    [op |-> "PullImage", arg |-> ref, outcome |-> outcome, err |-> err, stream |-> stream,
     steps |-> steps, events |-> events]

\* the registry serves the content id for namedRef
Served(namedRef, id) == namedRef.dig = <<>> \/ namedRef.dig = TargetDigest(id)

StreamItem(kind, msg) == [kind |-> kind, msg |-> msg]

\* closeStream: the stream is closed and waited for, the context cancelled
closeStream(stream) ==
    stream \o <<StreamItem("close", ""), StreamItem("wait", ""), StreamItem("cancel", "")>>

\* the stream is closed and the error is not sent
writeStream_NoError(stream, err) == closeStream(stream)

\* the error is sent and the stream is left open
writeStream_NoClose(stream, err) == Append(stream, StreamItem("error", err))

\* writeStream: the error is sent to the client through the stream, which is closed
writeStream(stream, err) == closeStream(Append(stream, StreamItem("error", err)))

\* the error of a transfer that the client gives up
PullError(outcome) == IF outcome = "cancel" THEN "ErrCanceled" ELSE "ErrPull"

\* the pull event is logged after the image is stored, and only if it is
PullEvents_AfterStore(name, stored) ==
    IF stored.err = "nil" THEN <<<<"pull", name>>>> ELSE <<>>

\* LogImageEvent: the pull event, logged before the image is stored
PullEvents(name, stored) == <<<<"pull", name>>>>

\* stored: the result of StoreImageReference of the image pulled
PullImageStored(ref, name, stream, stored) ==
    /\ SetStore(stored.st)
    /\ last' = PullImageLast(ref, "ok", stored.err, stream,
                   <<"PullImage", "closeStream", "PostPull", "LogImageEvent",
                     "StoreImageReference">>,
                   PullEvents(name, stored))

\* name: the name of the image that the client pulled; stream: the stream
\* after closeStream
PullImagePulled(ref, outcome, id, name, stream) ==
    IF outcome = "hookFail" THEN
        /\ remote' = ClientCreateImage(remote, name, id)
        /\ last' = PullImageLast(ref, outcome, "ErrPostPull", stream,
                       <<"PullImage", "closeStream", "PostPull">>, <<>>)
        /\ UNCHANGED <<primaryRefs, searchRefs, idByRef, metadata, tagged, pure, threads>>
    ELSE
        /\ remote' = ClientCreateImage(remote, name, id)
        /\ PullImageStored(ref, name, stream,
                           StoreImageReferenceOp(TheStore, [name |-> name, id |-> id]))
        /\ UNCHANGED <<tagged, pure, threads>>

PullImageParsed(ref, outcome, id, namedRef) ==
    IF namedRef.err THEN
        /\ outcome = "ok" /\ id = ID1
        /\ last' = PullImageLast(ref, outcome, "ErrInvalidReference", <<>>, <<>>, <<>>)
        /\ UNCHANGED <<storeVars, tagged, pure, threads>>
    ELSE IF outcome \in {"pullFail", "cancel"}
            \/ ~Served(TrimTagForDigest(WithDefaultTagIfMissing(namedRef)), id) THEN
        /\ outcome \in {"pullFail", "cancel"}
        /\ last' = PullImageLast(ref, outcome, PullError(outcome),
                       writeStream(<<>>, PullError(outcome)),
                       <<"PullImage", "writeStream">>, <<>>)
        /\ UNCHANGED <<storeVars, tagged, pure, threads>>
    ELSE PullImagePulled(ref, outcome, id,
                         PulledName(LookupImageReferences(RegistryMirrors, ref)),
                         closeStream(<<>>))

\* outcome: what the transfer and the post-pull hook do; id: the content that
\* the registry serves
PullImage(ref, outcome, id) == PullImageParsed(ref, outcome, id, Parse(ref))

(***************************************************************************)
(* RemoveImage                                                             *)
(***************************************************************************)
Perms(S) ==
    {f \in [1..Cardinality(S) -> S] : \A i, j \in 1..Cardinality(S) : f[i] = f[j] => i = j}

RECURSIVE RemoveAll_LocalOnly(_, _, _, _)
\* the loop without the call of the client
RemoveAll_LocalOnly(st, rs, id, order) ==
    IF Len(order) = 0 THEN [st |-> st, rs |-> rs]
    ELSE RemoveAll_LocalOnly(RemoveReference(st, id, order[1]), rs, id, Tail(order))

RECURSIVE RemoveAll_RemoteOnly(_, _, _, _)
\* the loop without the removal from the local store
RemoveAll_RemoteOnly(st, rs, id, order) ==
    IF Len(order) = 0 THEN [st |-> st, rs |-> rs]
    ELSE RemoveAll_RemoteOnly(st, ClientRemoveImage(rs, order[1]), id, Tail(order))

RECURSIVE RemoveAll(_, _, _, _)
\* the passes of the loop over the primary references in order: each removes
\* the reference from the remote store and from the local store
RemoveAll(st, rs, id, order) ==
    IF Len(order) = 0 THEN [st |-> st, rs |-> rs]
    ELSE RemoveAll(RemoveReference(st, id, order[1]), ClientRemoveImage(rs, order[1]),
                   id, Tail(order))

\* the deferred function of RemoveImage
\* the metadata is evicted whatever primary references are left
RemoveImageDeferred_Always(st, id) == ClearCtrdImageInfo(st, id)

RemoveImageDeferred(st, id) ==
    IF GetPrimaryReferences(st, id) = {} THEN ClearCtrdImageInfo(st, id) ELSE st

\* the ID-or-reference names the image by its identity
IsIdentity(c) == IsNamedOnly(c.ref) \/ HasPrefix(c.id, RefString(c.ref))

\* the check on the primary references only
RemoveRefused_PrimaryOnly(st, id, force) ==
    ~force /\ ~uniqueLocatorReference(GetPrimaryReferences(st, id))

\* the check that refuses the removal of all references of an image
RemoveRefused(st, id, force) == ~force /\ ~uniqueLocatorReference(GetReferences(st, id))

\* the named reference is the primary reference
\* every reference is removed as a primary reference is
IsPrimaryRemoval_Always(primaryRef, namedRef) == TRUE

IsPrimaryRemoval(primaryRef, namedRef) == primaryRef = RefString(namedRef)

\* mode: which branch ran; ref: the reference that a named removal removes;
\* removed: the references that the call removed from the local store
RemoveImageLast(idOrRef, force, err, mode, id, ref, removed, events) ==
    [op |-> "RemoveImage", arg |-> idOrRef, force |-> force, err |-> err,
     mode |-> mode, id |-> id, ref |-> ref, removed |-> removed, events |-> events]

\* done: the stores after the passes of the loop that ran
RemoveImageLooped(idOrRef, force, fails, id, order, done) ==
    /\ SetStore(RemoveImageDeferred(done.st, id))
    /\ remote' = done.rs
    /\ last' = RemoveImageLast(idOrRef, force,
                   IF fails < Len(order) THEN "ErrRemote" ELSE "nil",
                   "identity", id, <<>>, {order[i] : i \in 1..fails}, <<>>)
    /\ UNCHANGED <<tagged, pure, threads>>

\* the removal of all the references of the image c.id
RemoveImageIdentity(idOrRef, force, fails, st, c) ==
    IF RemoveRefused(st, c.id, force) THEN
        /\ fails = 0
        /\ SetStore(RemoveImageDeferred(st, c.id))
        /\ last' = RemoveImageLast(idOrRef, force, "ErrConflict", "identity", c.id,
                       <<>>, {}, <<>>)
        /\ UNCHANGED <<remote, tagged, pure, threads>>
    ELSE
        \E order \in Perms(GetPrimaryReferences(st, c.id)) :
            /\ fails \in 0..Len(order)
            /\ RemoveImageLooped(idOrRef, force, fails, c.id, order,
                                 RemoveAll(st, remote, c.id, SubSeq(order, 1, fails)))

\* the removal of the reference namedRef of the image c.id
RemoveImageNamed(idOrRef, force, fails, st, c, namedRef) ==
    \E primaryRef \in c.prims :
        IF IsPrimaryRemoval(primaryRef, namedRef) THEN
            /\ fails \in 0..1
            /\ SetStore(RemoveImageDeferred(RemoveReference(st, c.id, primaryRef), c.id))
            /\ remote' = IF fails = 0 THEN remote
                         ELSE ClientRemoveImage(remote, primaryRef)
            /\ last' = RemoveImageLast(idOrRef, force,
                           IF fails = 0 THEN "ErrRemote" ELSE "nil",
                           "primary", c.id, primaryRef, {primaryRef}, <<>>)
            /\ UNCHANGED <<tagged, pure, threads>>
        ELSE
            /\ fails = 0
            /\ SetStore(RemoveImageDeferred(
                   RemoveReference(st, c.id, RefString(namedRef)), c.id))
            /\ last' = RemoveImageLast(idOrRef, force, "nil", "untag", c.id,
                           RefString(namedRef), {RefString(namedRef)},
                           <<<<"untag", RefString(namedRef)>>>>)
            /\ UNCHANGED <<remote, tagged, pure, threads>>

\* the reference without its digest
StripDigest(ref) == [ref EXCEPT !.dig = <<>>]

\* the named removal strips the digest of the reference found
namedRefTrimmed_DigestStripped(ref) == StripDigest(ref)

\* namedRef of the named removal: the reference found, without its tag when it
\* has a digest
namedRefTrimmed(ref) == TrimTagForDigest(ref)

\* c: the result of CheckReference
RemoveImageChecked(idOrRef, force, fails, st, c) ==
    IF c.err # "nil" THEN
        /\ fails = 0
        /\ last' = RemoveImageLast(idOrRef, force, c.err, "none", <<>>, <<>>, {}, <<>>)
        /\ UNCHANGED <<storeVars, tagged, pure, threads>>
    ELSE IF IsIdentity(c) THEN RemoveImageIdentity(idOrRef, force, fails, st, c)
    ELSE RemoveImageNamed(idOrRef, force, fails, st, c, namedRefTrimmed(c.ref))

\* fails: the number of successful calls of the client before one fails;
\* none fails when it is as large as the number of calls
RemoveImage(idOrRef, force, fails) ==
    RemoveImageChecked(idOrRef, force, fails, TheStore, CheckReference(TheStore, idOrRef))

(***************************************************************************)
(* AddTag                                                                  *)
(***************************************************************************)
\* the parsed target with the default tag if it has none
DefaultTagged(ref) == IF ref.err THEN ref ELSE WithDefaultTagIfMissing(ref)

parseTagReference(targetTag) == DefaultTagged(Parse(targetTag))

\* a target that is the primary reference of an image is let through
validateTagReference_DigestOnly(st, ref) ==
    IF IsDigested(ref) THEN "ErrInvalidParam" ELSE "nil"

\* validateTagReference: the error of a target that has a digest or that is
\* the primary reference of an image already
validateTagReference(st, ref) ==
    IF IsDigested(ref) THEN "ErrInvalidParam"
    ELSE IF RefString(ref) \in GetPrimaryReference(st, RefString(ref)) THEN "ErrInvalidParam"
    ELSE "nil"

\* tagRef: the reference registered; id: the image ID it is registered for;
\* srcId: the image ID that the source resolves to
AddTagLast(source, target, err, tagRef, id, srcId) ==
    [op |-> "AddTag", arg |-> source, target |-> target, err |-> err,
     tagRef |-> tagRef, id |-> id, srcId |-> srcId]

\* the image ID under which AddTag registers the tag: the config digest of
\* the image that the client returns for the primary reference of the source
AddTagDigest(rs, primaryRef, c) == rs[primaryRef]

\* added: the result of addReferenceIntoStore of tagRef for the image id
AddTagAdded(source, target, createOK, tagRef, c, id, added) ==
    IF added.err # "nil" THEN
        /\ createOK
        /\ SetStore(added.st)
        /\ last' = AddTagLast(source, target, added.err, <<>>, <<>>, c.id)
        /\ UNCHANGED <<remote, tagged, pure, threads>>
    ELSE
        /\ SetStore(added.st)
        /\ remote' = IF createOK
                     THEN ClientCreateImage(remote, RefString(tagRef), id)
                     ELSE remote
        /\ last' = AddTagLast(source, target, IF createOK THEN "nil" ELSE "ErrRemote",
                       RefString(tagRef), id, c.id)
        /\ tagged' = IF createOK
                     THEN (RefString(tagRef) :> [id |-> id, src |-> c.id]) @@ tagged
                     ELSE tagged
        /\ UNCHANGED <<pure, threads>>

\* id: the config digest of the image of the source in the remote store
AddTagImage(source, target, createOK, st, tagRef, c, id) ==
    AddTagAdded(source, target, createOK, tagRef, c, id,
                addReferenceIntoStore(st, id, tagRef, TargetDigest(id)))

\* tagRef: the parsed target; c: the result of CheckReference of the source
AddTagChecked(source, target, createOK, st, tagRef, c) ==
    IF tagRef.err \/ validateTagReference(st, tagRef) # "nil" THEN
        /\ createOK
        /\ last' = AddTagLast(source, target, "ErrInvalidParam", <<>>, <<>>, <<>>)
        /\ UNCHANGED <<storeVars, tagged, pure, threads>>
    ELSE IF c.err # "nil" THEN
        /\ createOK
        /\ last' = AddTagLast(source, target, c.err, <<>>, <<>>, <<>>)
        /\ UNCHANGED <<storeVars, tagged, pure, threads>>
    ELSE
        \E primaryRef \in c.prims :
            IF primaryRef \notin DOMAIN remote THEN
                /\ createOK
                /\ last' = AddTagLast(source, target, "ErrRemote", <<>>, <<>>, c.id)
                /\ UNCHANGED <<storeVars, tagged, pure, threads>>
            ELSE AddTagImage(source, target, createOK, st, tagRef, c,
                             AddTagDigest(remote, primaryRef, c))

\* createOK: the client creates the image reference
AddTag(sourceImage, target, createOK) ==
    AddTagChecked(sourceImage, target, createOK, TheStore,
                  parseTagReference(addDefaultRegistryIfMissing(target)),
                  CheckReference(TheStore, sourceImage))

(***************************************************************************)
(* The image manager under any sequence of calls                           *)
(***************************************************************************)
NoCall == [op |-> "none", err |-> "nil"]

\* the calls of one run
MaxCalls == 3

\* the names of the images that containerd holds when the daemon starts
BootNames == {Str_full_ut, Str_x_ut}

RECURSIVE updateLocalStore(_, _, _)
\* updateLocalStore: StoreImageReference of every image the client lists, in
\* the order of the list; an image that fails is skipped
updateLocalStore(st, rs, names) ==
    IF Len(names) = 0 THEN st
    ELSE updateLocalStore(
             StoreImageReferenceOp(st, [name |-> names[1], id |-> rs[names[1]]]).st,
             rs, Tail(names))

\* the local store is st
StoreIs(st) ==
    /\ primaryRefs = st.p
    /\ searchRefs = st.s
    /\ idByRef = st.r
    /\ metadata = st.m

\* NewImageManager: the store is loaded from the images of containerd
Init ==
    /\ \E names \in SUBSET BootNames :
           /\ remote \in [names -> IDs]
           /\ \E order \in Perms(names) :
                  StoreIs(updateLocalStore(EmptyStore, remote, order))
    /\ last = NoCall
    /\ calls = 0
    /\ threads = <<>>
    /\ tagged = <<>>
    /\ pure = NoCall

\* c: the result of CheckReference
ClientCalls(c) ==
    IF c.err # "nil" THEN 0
    ELSE IF IsIdentity(c) THEN Cardinality(GetPrimaryReferences(TheStore, c.id))
    ELSE 1

\* the number of client calls that a removal makes
RemoveCalls(idOrRef) == ClientCalls(CheckReference(TheStore, idOrRef))

\* one more call of the image manager
Called == calls < MaxCalls /\ calls' = calls + 1

Next ==
    \/ \E ref \in PullRefs, outcome \in PullOutcomes, id \in IDs :
           Called /\ PullImage(ref, outcome, id)
    \/ \E name \in DOMAIN remote : Called /\ StoreImageReference(name)
    \/ \E idOrRef \in IdOrRefs, force \in BOOLEAN :
           \E fails \in 0..RemoveCalls(idOrRef) :
               Called /\ RemoveImage(idOrRef, force, fails)
    \/ \E source \in TagSources, target \in TagTargets, createOK \in BOOLEAN :
           Called /\ AddTag(source, target, createOK)

Spec == Init /\ [][Next]_vars

(***************************************************************************)
(* LookupImageReferences on its own: the arguments are drawn, then the     *)
(* function is applied.  PullImage passes references that parse.           *)
(***************************************************************************)
\* the longest list of registry mirrors
MaxMirrors == 2

\* the sequences of at most n elements of S
SeqsOf(S, n) == UNION {[1..k -> S] : k \in 0..n}

MirrorLists == SeqsOf({Mirror1, Mirror2}, MaxMirrors)

Str_ns_u == <<"ns", "/", "u">>
Str_reg_u == DefaultRegistry \o <<"/", "u">>
Str_x_u == OtherRegistry \o <<"/", "u">>

LookupRefs ==
    {Str_u, Str_ut, Str_ns_u, Str_ns_u \o <<":", "t">>, Str_u_dig1,
     <<"localhost", "/", "u">>,
     Str_reg_u, Str_reg_u \o <<":", "t">>, DefaultRegistry \o <<"/">> \o Str_ns_u, Str_full_ut,
     Str_x_u, Str_x_ut, OtherRegistry \o <<"/">> \o Str_ns_u,
     <<"h", ":", "5", "/", "u">>, Mirror1 \o <<"/", "u">>}

\* no image, no call of the image manager
Idle ==
    /\ StoreIs(EmptyStore)
    /\ remote = <<>>
    /\ last = NoCall
    /\ calls = 0
    /\ threads = <<>>
    /\ tagged = <<>>

InitLookup ==
    /\ Idle
    /\ \E mirrors \in MirrorLists, ref \in LookupRefs :
           pure = [op |-> "args", mirrors |-> mirrors, ref |-> ref, out |-> <<>>]

LookupCall ==
    /\ pure.op = "args"
    /\ pure' = [pure EXCEPT !.op = "LookupImageReferences",
                            !.out = LookupImageReferences(pure.mirrors, pure.ref)]
    /\ UNCHANGED <<storeVars, last, calls, tagged, threads>>

NextLookup == LookupCall

SpecLookup == InitLookup /\ [][NextLookup]_vars

(***************************************************************************)
(* ImageHistory: the loop over the history of the image configuration and  *)
(* the layers of the manifest.  An entry of the history is a record of its *)
(* EmptyLayer flag and its CreatedBy; a layer is the size that the content *)
(* store reports for its digest.                                           *)
(***************************************************************************)
\* the item of pass i (from 1) of the loop, for the history entry e
HistoryItem(e, i, id, size) ==
    [CreatedBy |-> e.CreatedBy, EmptyLayer |-> e.EmptyLayer,
     ID |-> IF i = 1 THEN id ELSE <<"<missing>">>, Size |-> size]

\* the size of the layer counted from the bottom of the list
LayerSize_FromBottom(layers, j) == layers[Len(layers) - j + 1]

\* cs.Info(manifest.Layers[j].Digest).Size
LayerSize(layers, j) == layers[j]

\* no check after the loop
LayersLeft_Ignored(j) == FALSE

\* the check after the loop: a layer is left
LayersLeft(j) == j # 0

RECURSIVE HistoryLoop(_, _, _, _, _, _)
\* the passes i, i + 1, ... of the loop and what follows it; j is the index of
\* the layer of the next non-empty entry, history the items so far
HistoryLoop(ociImageHistory, layers, id, i, j, history) ==
    IF i > Len(ociImageHistory)
    THEN IF LayersLeft(j) THEN [err |-> "ErrLayersGreater", history |-> <<>>]
         ELSE [err |-> "nil", history |-> history]
    ELSE IF ociImageHistory[Len(ociImageHistory) - i + 1].EmptyLayer
    THEN HistoryLoop(ociImageHistory, layers, id, i + 1, j,
             Append(history,
                    HistoryItem(ociImageHistory[Len(ociImageHistory) - i + 1], i, id, 0)))
    ELSE IF j < 1 THEN [err |-> "ErrLayersLess", history |-> <<>>]
    ELSE HistoryLoop(ociImageHistory, layers, id, i + 1, j - 1,
             Append(history,
                    HistoryItem(ociImageHistory[Len(ociImageHistory) - i + 1], i, id,
                                LayerSize(layers, j))))

\* id is the digest of the image configuration
ImageHistory(ociImageHistory, layers, id) ==
    HistoryLoop(ociImageHistory, layers, id, 1, Len(layers), <<>>)

\* the longest history and the longest list of layers
MaxHistory == 3
MaxLayers == 3

LayerSizes == {7, 9}

\* the histories: the entry i from the bottom is created by i
Histories ==
    UNION {{[i \in 1..k |-> [EmptyLayer |-> f[i], CreatedBy |-> i]] : f \in [1..k -> BOOLEAN]}
               : k \in 0..MaxHistory}

LayerLists == SeqsOf(LayerSizes, MaxLayers)

InitHistory ==
    /\ Idle
    /\ \E h \in Histories, layers \in LayerLists :
           pure = [op |-> "args", History |-> h, Layers |-> layers,
                   err |-> "nil", history |-> <<>>]

HistoryCall ==
    /\ pure.op = "args"
    /\ pure' = [op |-> "ImageHistory", History |-> pure.History, Layers |-> pure.Layers,
                err |-> ImageHistory(pure.History, pure.Layers, ID1).err,
                history |-> ImageHistory(pure.History, pure.Layers, ID1).history]
    /\ UNCHANGED <<storeVars, last, calls, tagged, threads>>

NextHistory == HistoryCall

SpecHistory == InitHistory /\ [][NextHistory]_vars

(***************************************************************************)
(* GetImage and ListImages                                                 *)
(***************************************************************************)
\* Time.Format(utils.TimeLayout): the seconds, then the nanoseconds unless zero
FormatTime(t) == IF t.nsec = 0 THEN <<t.sec>> ELSE <<t.sec, ".", t.nsec>>

\* time.Parse(utils.TimeLayout, s)
ParseTime(s) == [sec |-> s[1], nsec |-> IF Len(s) = 1 THEN 0 ELSE s[3]]

TimeEqual(a, b) == a.sec = b.sec /\ a.nsec = b.nsec
TimeBefore(a, b) == a.sec < b.sec \/ (a.sec = b.sec /\ a.nsec < b.nsec)
TimeAfter(a, b) == TimeBefore(b, a)

NoImageInfo(e) ==
    [err |-> e, ID |-> <<>>, CreatedAt |-> <<>>, RepoTags |-> {}, RepoDigests |-> {}]

\* the strings of the references that have a tag, and of those that have a digest
TagRefs(refs) == {r \in refs : IsNameTagged(Parse(r))}
DigestRefs(refs) == {r \in refs : ~IsNameTagged(Parse(r)) /\ IsDigested(Parse(r))}

containerdImageToImageInfo(st, id) ==
    IF id \notin DOMAIN st.m THEN NoImageInfo("ErrNotfound")
    ELSE [err |-> "nil", ID |-> id, CreatedAt |-> FormatTime(st.m[id].Created),
          RepoTags |-> TagRefs(GetReferences(st, id)),
          RepoDigests |-> DigestRefs(GetReferences(st, id))]

\* c: the result of CheckReference
GetImageChecked(st, c) ==
    IF c.err # "nil" THEN NoImageInfo(c.err) ELSE containerdImageToImageInfo(st, c.id)

GetImage(st, idOrRef) == GetImageChecked(st, CheckReference(st, idOrRef))

NoFilter == [set |-> FALSE, err |-> "nil", time |-> [sec |-> 0, nsec |-> 0]]

\* the filter of the image info: its creation time, or the error of GetImage
FilterOfImage(info) ==
    IF info.err # "nil" THEN [NoFilter EXCEPT !.err = info.err]
    ELSE [set |-> TRUE, err |-> "nil", time |-> ParseTime(info.CreatedAt)]

\* beforeFilter and beforeTime, or sinceFilter and sinceTime
FilterTime(st, images) ==
    IF Len(images) = 0 THEN NoFilter ELSE FilterOfImage(GetImage(st, images[1]))

\* the image is left out although it is created at the time of the filter only
FilteredOut_Inclusive(created, before, since) ==
    \/ before.set /\ TimeAfter(created, before.time)
    \/ since.set /\ TimeBefore(created, since.time)

\* the loop leaves out the image created at the time created
FilteredOut(created, before, since) ==
    \/ before.set /\ (TimeEqual(created, before.time) \/ TimeAfter(created, before.time))
    \/ since.set /\ (TimeEqual(created, since.time) \/ TimeBefore(created, since.time))

RECURSIVE GlobMatch(_, _, _, _)
\* path.Match of the pattern from its i-th element with the name from its j-th:
\* "*" matches any sequence of characters other than "/"
GlobMatch(pattern, i, name, j) ==
    IF i > Len(pattern) THEN j > Len(name)
    ELSE IF pattern[i] = "*"
    THEN \/ GlobMatch(pattern, i + 1, name, j)
         \/ j <= Len(name) /\ name[j] # "/" /\ GlobMatch(pattern, i, name, j + 1)
    ELSE j <= Len(name) /\ pattern[i] = name[j] /\ GlobMatch(pattern, i + 1, name, j + 1)

\* a pattern with a character class that is never closed is malformed
BadPattern(pattern) == \E i \in 1..Len(pattern) : pattern[i] = "["

\* filters.FamiliarMatch(pattern, ref)
FamiliarMatch(pattern, ref) ==
    IF BadPattern(pattern) THEN [found |-> FALSE, err |-> "ErrBadPattern"]
    ELSE [found |-> GlobMatch(pattern, 1, ref, 1), err |-> "nil"]

RECURSIVE MatchFrom(_, _, _)
\* m: the match of the k-th pattern; the loop stops at an error and at a match
MatchAt(filter, k, ref, m) ==
    IF m.err # "nil" THEN "error"
    ELSE IF m.found THEN "found"
    ELSE MatchFrom(filter, k + 1, ref)

\* the inner loop of filterReference from the k-th pattern on
MatchFrom(filter, k, ref) ==
    IF k > Len(filter) THEN "none"
    ELSE MatchAt(filter, k, ref, FamiliarMatch(filter[k], ref))

\* filterReference: the references that match a pattern of the filter
filterReference(filter, ref) ==
    IF Len(filter) = 0 THEN [err |-> "nil", refs |-> ref]
    ELSE IF \E r \in ref : MatchFrom(filter, 1, r) = "error"
    THEN [err |-> "ErrBadPattern", refs |-> {}]
    ELSE [err |-> "nil", refs |-> {r \in ref : MatchFrom(filter, 1, r) = "found"}]

\* the image info with the digests and the tags that the reference filter keeps
ReferenceFiltered(info, digests, tags) ==
    [err |-> IF digests.err # "nil" THEN digests.err ELSE tags.err,
     info |-> [info EXCEPT !.RepoDigests = digests.refs, !.RepoTags = tags.refs]]

\* the filtered image info is listed although no tag of it is left
ReferenceKept_Always(info) == TRUE

\* the filtered image info is listed
ReferenceKept(info) == info.RepoTags # {} \/ info.RepoDigests # {}

\* results: the filtered image infos, each with the error of its filtering
ListImagesReferenced(results) ==
    IF \E r \in results : r.err # "nil"
    THEN [err |-> (CHOOSE r \in results : r.err # "nil").err, images |-> {}]
    ELSE [err |-> "nil", images |-> {r.info : r \in {x \in results : ReferenceKept(x.info)}}]

\* the reference filter of the loop of ListImages
ListImagesByReference(infos, referenceFilter) ==
    IF Len(referenceFilter) = 0 THEN [err |-> "nil", images |-> infos]
    ELSE ListImagesReferenced(
             {ReferenceFiltered(info, filterReference(referenceFilter, info.RepoDigests),
                                filterReference(referenceFilter, info.RepoTags)) :
                  info \in infos})

\* the image infos of the images of the cache that the filters keep
ListedImages(st, before, since) ==
    {info \in {containerdImageToImageInfo(st, img.ID) :
                   img \in {i \in ListCtrdImageInfo(st) :
                                ~FilteredOut(i.Created, before, since)}} :
         info.err = "nil"}

ListImagesFiltered(st, before, since, referenceFilter) ==
    IF before.err # "nil" THEN [err |-> before.err, images |-> {}]
    ELSE IF since.err # "nil" THEN [err |-> since.err, images |-> {}]
    ELSE ListImagesByReference(ListedImages(st, before, since), referenceFilter)

\* beforeImages, sinceImages, referenceFilter: the values of the filters
\* "before", "since" and "reference"
ListImages(st, beforeImages, sinceImages, referenceFilter) ==
    IF Len(beforeImages) > 1 \/ Len(sinceImages) > 1
    THEN [err |-> "ErrInvalidParam", images |-> {}]
    ELSE ListImagesFiltered(st, FilterTime(st, beforeImages), FilterTime(st, sinceImages),
                            referenceFilter)

Str_full_vt == DefaultRegistry \o <<"/">> \o DefaultNamespace \o <<"/", "v", ":", "t">>
Str_x_vt == OtherRegistry \o <<"/", "v", ":", "t">>

\* the names of the images that containerd can hold
ListNames == {Str_full_ut, Str_x_ut, Str_full_vt, Str_x_vt}

\* the values of a filter
FilterArgs == {<<>>, <<ID1>>, <<ID3>>, <<ID4>>, <<Str_ut>>, <<Str_short>>, <<ID1, ID2>>}

\* the daemon has loaded the images of containerd
InitList ==
    /\ \E names \in SUBSET ListNames :
           /\ remote \in [names -> AllIDs]
           /\ \E order \in Perms(names) :
                  StoreIs(updateLocalStore(EmptyStore, remote, order))
    /\ last = NoCall
    /\ calls = 0
    /\ threads = <<>>
    /\ tagged = <<>>
    /\ pure = NoCall

ListedAs(before, since, reference, r) ==
    pure' = [op |-> "ListImages", before |-> before, since |-> since,
             reference |-> reference, err |-> r.err, images |-> r.images]

ListCall(before, since, reference) ==
    /\ pure.op = "none"
    /\ ListedAs(before, since, reference, ListImages(TheStore, before, since, reference))
    /\ UNCHANGED <<storeVars, last, calls, tagged, threads>>

NextList == \E before \in FilterArgs, since \in FilterArgs : ListCall(before, since, <<>>)

SpecList == InitList /\ [][NextList]_vars

(***************************************************************************)
(* ListImages with a reference filter                                      *)
(***************************************************************************)
\* patterns: every name of the other registry, the tag t in the default
\* namespace, the digest names of u, one name, a name no image has, a
\* malformed pattern
Pat_x == OtherRegistry \o <<"/", "*">>
Pat_lib_t == <<"*", "/">> \o DefaultNamespace \o <<"/", "*", ":", "t">>
Pat_u_dig == <<"*", "/", "u", "@", "*">>
Pat_none == <<"z", "*">>
Pat_bad == <<"[", "u">>
Patterns == {Pat_x, Pat_lib_t, Pat_u_dig, Str_x_vt, Pat_none, Pat_bad}

\* the patterns of one reference filter
MaxPatterns == 2

ReferenceFilters == UNION {[1..n -> Patterns] : n \in 1..MaxPatterns}

NextListRef ==
    \E since \in {<<>>, <<ID1>>}, reference \in ReferenceFilters :
        ListCall(<<>>, since, reference)

\* the names of the images that containerd holds
RefNames == {Str_full_ut, Str_x_ut, Str_x_vt}

\* the daemon has loaded the images of containerd
InitListRef ==
    /\ \E names \in SUBSET RefNames :
           /\ remote \in [names -> AllIDs]
           /\ \E order \in Perms(names) :
                  StoreIs(updateLocalStore(EmptyStore, remote, order))
    /\ last = NoCall
    /\ calls = 0
    /\ threads = <<>>
    /\ tagged = <<>>
    /\ pure = NoCall

SpecListRef == InitListRef /\ [][NextListRef]_vars

(***************************************************************************)
(* CheckReference after any sequence of calls                              *)
(***************************************************************************)
\* the calls that come before the lookup
MaxPrior == 2

\* the ID-or-reference arguments of a lookup
CheckArgs == IdOrRefs \cup {Str_u, Str_full_ut, Str_x_u, ID2, Hex(ID1)}

CheckedAs(idOrRef, c) ==
    pure' = [op |-> "CheckReference", idOrRef |-> idOrRef, err |-> c.err, id |-> c.id,
             ref |-> c.ref, prims |-> c.prims]

CheckCall(idOrRef) ==
    /\ pure.op = "none"
    /\ CheckedAs(idOrRef, CheckReference(TheStore, idOrRef))
    /\ UNCHANGED <<storeVars, last, calls, tagged, threads>>

NextCheck ==
    \/ pure.op = "none" /\ calls < MaxPrior /\ Next
    \/ \E idOrRef \in CheckArgs : CheckCall(idOrRef)

SpecCheck == Init /\ [][NextCheck]_vars

(***************************************************************************)
(* Calls that run at the same time.  Every call of a method of the local   *)
(* store and of the client is one step; a thread is one call of PullImage  *)
(* (from its transfer on), RemoveImage or AddTag.  CheckReference and the  *)
(* safety check of RemoveImage read the store in one step each.            *)
(***************************************************************************)
MaxThreads == 2

\* a call that has not started: arg is the reference, target the tag of
\* AddTag, id the image that the registry serves to PullImage
Thread(op, arg, target, force, id) ==
    [op |-> op, pc |-> "start", arg |-> arg, target |-> target, force |-> force,
     id |-> id, ref |-> <<>>, prim |-> <<>>, todo |-> <<>>, after |-> "none", err |-> "nil"]

\* the calls that a thread can be
ThreadCalls ==
    {Thread("PullImage", ref, <<>>, FALSE, id) : ref \in {Str_ut, Str_x_ut}, id \in IDs}
        \cup {Thread("RemoveImage", r, <<>>, f, <<>>) :
                  r \in {Str_x_ut, Str_short, Str_u_dig1}, f \in BOOLEAN}
        \cup {Thread("AddTag", Str_x_ut, target, FALSE, <<>>) : target \in {Str_ut, Str_x_ut}}

At(t, op, pc) == threads[t].op = op /\ threads[t].pc = pc

\* the thread t goes on as th
Becomes(t, th) == threads' = [threads EXCEPT ![t] = th]

Returned(th, err) == [th EXCEPT !.pc = "done", !.err = err]

Quiet == UNCHANGED <<last, calls, tagged, pure>>

\* client.PullImage: the image is recorded in the remote store under name (the
\* stream, the hook and the event do not touch the stores)
PullTransferAs(t, name) ==
    /\ remote' = ClientCreateImage(remote, name, threads[t].id)
    /\ Becomes(t, [threads[t] EXCEPT !.ref = name, !.pc = "addPrimary", !.after = "cache"])
    /\ UNCHANGED <<primaryRefs, searchRefs, idByRef, metadata>>
    /\ Quiet

PullTransfer(t) ==
    /\ At(t, "PullImage", "start")
    /\ PullTransferAs(t, PulledName(LookupImageReferences(RegistryMirrors, threads[t].arg)))

\* r: the result of AddReference(id, ref, ref)
AddPrimaryAs(t, r) ==
    /\ SetStore(r.st)
    /\ Becomes(t, IF r.err # "nil" THEN Returned(threads[t], r.err)
                  ELSE IF IsNameTagged(Parse(threads[t].ref))
                  THEN [threads[t] EXCEPT !.pc = "searchDigest"]
                  ELSE [threads[t] EXCEPT !.pc = threads[t].after])
    /\ UNCHANGED remote
    /\ Quiet

\* addReferenceIntoStore: the primary reference
AddPrimary(t) ==
    /\ threads[t].pc = "addPrimary"
    /\ AddPrimaryAs(t, AddReference(TheStore, threads[t].id, threads[t].ref, threads[t].ref))

\* the digest reference of the thread: its reference with the manifest digest
DigestRef(th) == WithDigest(Parse(th.ref), TargetDigest(th.id))

\* addReferenceIntoStore: the search for the digest reference
SearchDigest(t) ==
    /\ threads[t].pc = "searchDigest"
    /\ Becomes(t, IF Search(TheStore, DigestRef(threads[t])).err = "ErrNotfound"
                  THEN [threads[t] EXCEPT !.pc = "addDigest"]
                  ELSE [threads[t] EXCEPT !.pc = threads[t].after])
    /\ UNCHANGED storeVars
    /\ Quiet

\* r: the result of AddReference(id, ref, digRef)
AddDigestAs(t, r) ==
    /\ SetStore(r.st)
    /\ Becomes(t, IF r.err # "nil" THEN Returned(threads[t], r.err)
                  ELSE [threads[t] EXCEPT !.pc = threads[t].after])
    /\ UNCHANGED remote
    /\ Quiet

\* addReferenceIntoStore: the digest reference
AddDigest(t) ==
    /\ threads[t].pc = "addDigest"
    /\ AddDigestAs(t, AddReference(TheStore, threads[t].id, threads[t].ref,
                                   RefString(DigestRef(threads[t]))))

\* StoreImageReference: the metadata is cached after the references
CacheInfo(t) ==
    /\ threads[t].pc = "cache"
    /\ SetStore(CacheCtrdImageInfo(TheStore, threads[t].id, CtrdImageInfo(threads[t].id)))
    /\ Becomes(t, Returned(threads[t], "nil"))
    /\ UNCHANGED remote
    /\ Quiet

\* the place of RemoveImage after CheckReference returned c with primaryRef
RemovePlace(c, primaryRef) ==
    IF IsIdentity(c) THEN "refuse"
    ELSE IF IsPrimaryRemoval(primaryRef, TrimTagForDigest(c.ref)) THEN "localRemove"
    ELSE "untag"

\* c: the result of CheckReference
RemoveCheckAs(t, c) ==
    IF c.err # "nil" THEN Becomes(t, Returned(threads[t], c.err))
    ELSE \E primaryRef \in c.prims :
             Becomes(t, [threads[t] EXCEPT !.id = c.id, !.prim = primaryRef,
                                          !.ref = RefString(TrimTagForDigest(c.ref)),
                                          !.pc = RemovePlace(c, primaryRef)])

RemoveCheck(t) ==
    /\ At(t, "RemoveImage", "start")
    /\ RemoveCheckAs(t, CheckReference(TheStore, threads[t].arg))
    /\ UNCHANGED storeVars
    /\ Quiet

\* the safety check of the removal by identity and the list of the loop
RemoveRefuse(t) ==
    /\ At(t, "RemoveImage", "refuse")
    /\ IF RemoveRefused(TheStore, threads[t].id, threads[t].force)
       THEN Becomes(t, [threads[t] EXCEPT !.pc = "defer", !.err = "ErrConflict"])
       ELSE \E order \in Perms(GetPrimaryReferences(TheStore, threads[t].id)) :
                Becomes(t, [threads[t] EXCEPT
                                !.todo = order,
                                !.pc = IF order = <<>> THEN "defer" ELSE "loopClient"])
    /\ UNCHANGED storeVars
    /\ Quiet

\* the loop: client.RemoveImage of the next primary reference
LoopClient(t, ok) ==
    /\ At(t, "RemoveImage", "loopClient")
    /\ remote' = IF ok THEN ClientRemoveImage(remote, Head(threads[t].todo)) ELSE remote
    /\ Becomes(t, IF ok THEN [threads[t] EXCEPT !.pc = "loopLocal"]
                  ELSE [threads[t] EXCEPT !.pc = "defer", !.err = "ErrRemote"])
    /\ UNCHANGED <<primaryRefs, searchRefs, idByRef, metadata>>
    /\ Quiet

\* the loop: RemoveReference of the primary reference
LoopLocal(t) ==
    /\ At(t, "RemoveImage", "loopLocal")
    /\ SetStore(RemoveReference(TheStore, threads[t].id, Head(threads[t].todo)))
    /\ Becomes(t, [threads[t] EXCEPT
                       !.todo = Tail(@),
                       !.pc = IF Len(threads[t].todo) = 1 THEN "defer" ELSE "loopClient"])
    /\ UNCHANGED remote
    /\ Quiet

\* the removal of a primary reference by its name: the local store first
LocalRemove(t) ==
    /\ At(t, "RemoveImage", "localRemove")
    /\ SetStore(RemoveReference(TheStore, threads[t].id, threads[t].prim))
    /\ Becomes(t, [threads[t] EXCEPT !.pc = "clientRemove"])
    /\ UNCHANGED remote
    /\ Quiet

\* the removal of a primary reference by its name: the client
ClientRemove(t, ok) ==
    /\ At(t, "RemoveImage", "clientRemove")
    /\ remote' = IF ok THEN ClientRemoveImage(remote, threads[t].prim) ELSE remote
    /\ Becomes(t, [threads[t] EXCEPT !.pc = "defer",
                                     !.err = IF ok THEN "nil" ELSE "ErrRemote"])
    /\ UNCHANGED <<primaryRefs, searchRefs, idByRef, metadata>>
    /\ Quiet

\* the removal of a reference that is not primary
Untag(t) ==
    /\ At(t, "RemoveImage", "untag")
    /\ SetStore(RemoveReference(TheStore, threads[t].id, threads[t].ref))
    /\ Becomes(t, [threads[t] EXCEPT !.pc = "defer"])
    /\ UNCHANGED remote
    /\ Quiet

\* the deferred function: the test of the primary references
DeferCheck(t) ==
    /\ At(t, "RemoveImage", "defer")
    /\ Becomes(t, IF GetPrimaryReferences(TheStore, threads[t].id) = {}
                  THEN [threads[t] EXCEPT !.pc = "clear"]
                  ELSE Returned(threads[t], threads[t].err))
    /\ UNCHANGED storeVars
    /\ Quiet

\* the deferred function: ClearCtrdImageInfo
DeferClear(t) ==
    /\ At(t, "RemoveImage", "clear")
    /\ SetStore(ClearCtrdImageInfo(TheStore, threads[t].id))
    /\ Becomes(t, Returned(threads[t], threads[t].err))
    /\ UNCHANGED remote
    /\ Quiet

\* tagRef: the parsed target of the tag
TagValidateAs(t, tagRef) ==
    Becomes(t, IF tagRef.err \/ validateTagReference(TheStore, tagRef) # "nil"
               THEN Returned(threads[t], "ErrInvalidParam")
               ELSE [threads[t] EXCEPT !.ref = RefString(tagRef), !.pc = "fetch"])

TagValidate(t) ==
    /\ At(t, "AddTag", "start")
    /\ TagValidateAs(t, parseTagReference(addDefaultRegistryIfMissing(threads[t].target)))
    /\ UNCHANGED storeVars
    /\ Quiet

\* c: the result of CheckReference of the source
TagFetchAs(t, c) ==
    IF c.err # "nil" THEN Becomes(t, Returned(threads[t], c.err))
    ELSE \E primaryRef \in c.prims :
             Becomes(t, [threads[t] EXCEPT !.prim = primaryRef, !.pc = "getImage"])

\* fetchContainerdImage: CheckReference
TagFetch(t) ==
    /\ At(t, "AddTag", "fetch")
    /\ TagFetchAs(t, CheckReference(TheStore, threads[t].arg))
    /\ UNCHANGED storeVars
    /\ Quiet

\* fetchContainerdImage: client.GetImage, and the config digest of the image
TagGetImage(t) ==
    /\ At(t, "AddTag", "getImage")
    /\ Becomes(t, IF threads[t].prim \in DOMAIN remote
                  THEN [threads[t] EXCEPT !.id = remote[threads[t].prim],
                                         !.pc = "addPrimary", !.after = "create"]
                  ELSE Returned(threads[t], "ErrRemote"))
    /\ UNCHANGED storeVars
    /\ Quiet

\* client.CreateImageReference
TagCreate(t, ok) ==
    /\ At(t, "AddTag", "create")
    /\ remote' = IF ok THEN ClientCreateImage(remote, threads[t].ref, threads[t].id)
                 ELSE remote
    /\ Becomes(t, Returned(threads[t], IF ok THEN "nil" ELSE "ErrRemote"))
    /\ UNCHANGED <<primaryRefs, searchRefs, idByRef, metadata>>
    /\ Quiet

\* the daemon has loaded its store and the calls arrive
InitThreads ==
    /\ \E names \in SUBSET BootNames :
           /\ remote \in [names -> IDs]
           /\ \E order \in Perms(names) :
                  StoreIs(updateLocalStore(EmptyStore, remote, order))
    /\ last = NoCall
    /\ calls = 0
    /\ tagged = <<>>
    /\ pure = NoCall
    /\ threads \in [1..MaxThreads -> ThreadCalls]

NextThreads ==
    \E t \in 1..MaxThreads :
        \/ PullTransfer(t)
        \/ AddPrimary(t)
        \/ SearchDigest(t)
        \/ AddDigest(t)
        \/ CacheInfo(t)
        \/ RemoveCheck(t)
        \/ RemoveRefuse(t)
        \/ \E ok \in BOOLEAN : LoopClient(t, ok)
        \/ LoopLocal(t)
        \/ LocalRemove(t)
        \/ \E ok \in BOOLEAN : ClientRemove(t, ok)
        \/ Untag(t)
        \/ DeferCheck(t)
        \/ DeferClear(t)
        \/ TagValidate(t)
        \/ TagFetch(t)
        \/ TagGetImage(t)
        \/ \E ok \in BOOLEAN : TagCreate(t, ok)

SpecThreads == InitThreads /\ [][NextThreads]_vars

(***************************************************************************)
(* Server.removeImage, the handler of the removal request: GetImage, then  *)
(* ListReferences and the check of the containers, then RemoveImage, each  *)
(* a step of its thread.  The containers do not change while the requests  *)
(* run.                                                                    *)
(***************************************************************************)
\* the image IDs of the containers that ContainerMgr.List knows
ContainerImages == {ID1}

\* ListReferences: the primary references of the image
ListReferences(st, imageID) == GetPrimaryReferences(st, imageID)

isImageIDPrefix(imageID, name) == HasPrefix(imageID, name) \/ HasPrefix(Hex(imageID), name)

\* the handler looks for the containers of the image
ChecksContainers(refs, imageID, name) ==
    Cardinality(refs) = 1 \/ isImageIDPrefix(imageID, name)

\* the image is used by a container and the request has no force
InUse(imageID, isForce) == ~isForce /\ imageID \in ContainerImages

\* image: the result of GetImage
HandlerGetImageAs(t, image) ==
    IF image.err # "nil" THEN Becomes(t, Returned(threads[t], image.err))
    ELSE Becomes(t, [threads[t] EXCEPT !.id = image.ID, !.pc = "listReferences"])

HandlerGetImage(t) ==
    /\ At(t, "removeImage", "start")
    /\ HandlerGetImageAs(t, GetImage(TheStore, threads[t].arg))
    /\ UNCHANGED storeVars
    /\ Quiet

\* refs: the result of ListReferences; the request is rejected, or the handler
\* calls RemoveImage
HandlerCheckAs(t, refs) ==
    IF ChecksContainers(refs, threads[t].id, threads[t].arg)
           /\ InUse(threads[t].id, threads[t].force)
    THEN Becomes(t, Returned(threads[t], "ErrInUse"))
    ELSE Becomes(t, Thread("RemoveImage", threads[t].arg, <<>>, threads[t].force, <<>>))

HandlerCheck(t) ==
    /\ At(t, "removeImage", "listReferences")
    /\ HandlerCheckAs(t, ListReferences(TheStore, threads[t].id))
    /\ UNCHANGED storeVars
    /\ Quiet

\* the requests that a thread can be
HandlerCalls ==
    {Thread("removeImage", name, <<>>, isForce, <<>>) :
         name \in {Str_ut, Str_x_ut, Str_short, Str_u_dig1}, isForce \in BOOLEAN}

InitHandler ==
    /\ \E names \in SUBSET BootNames :
           /\ remote \in [names -> IDs]
           /\ \E order \in Perms(names) :
                  StoreIs(updateLocalStore(EmptyStore, remote, order))
    /\ last = NoCall
    /\ calls = 0
    /\ tagged = <<>>
    /\ pure = NoCall
    /\ threads \in [1..MaxThreads -> HandlerCalls]

NextHandler ==
    \E t \in 1..MaxThreads :
        \/ HandlerGetImage(t)
        \/ HandlerCheck(t)
        \/ RemoveCheck(t)
        \/ RemoveRefuse(t)
        \/ \E ok \in BOOLEAN : LoopClient(t, ok)
        \/ LoopLocal(t)
        \/ LocalRemove(t)
        \/ \E ok \in BOOLEAN : ClientRemove(t, ok)
        \/ Untag(t)
        \/ DeferCheck(t)
        \/ DeferClear(t)

SpecHandler == InitHandler /\ [][NextHandler]_vars

(***************************************************************************)
(* Properties of the reference store                                       *)
(***************************************************************************)
NextStore == [p |-> primaryRefs', s |-> searchRefs', r |-> idByRef', m |-> metadata']

\* C1: every image ID that has a reference in the local store, primary or
\* searchable, has a primary reference.
C1_PrimaryInvariant ==
    \A id \in AllIDs :
        (searchRefs[id] # {} \/ \E r \in DOMAIN idByRef : idByRef[r] = id)
            => primaryRefs[id] # {}

\* a primary reference was removed and the image keeps its other references
C1_Witness ==
    /\ last.op = "RemoveImage" /\ last.mode = "primary" /\ last.err = "nil"
    /\ searchRefs[last.id] # {}
    /\ primaryRefs[last.id] # {}

\* C2: after AddTag(source, target) returned without error, CheckReference of
\* the target succeeds and returns the image ID that CheckReference of the
\* source returns.
C2_TagRoundTrip ==
    (last.op = "AddTag" /\ last.err = "nil") =>
        /\ CheckReference(TheStore, last.target).err = "nil"
        /\ CheckReference(TheStore, last.arg).err = "nil"
        /\ CheckReference(TheStore, last.target).id = CheckReference(TheStore, last.arg).id

\* the removal of a name of the source of the tag T, by name, succeeds
C3_Removal(T) ==
    /\ last'.op = "RemoveImage" /\ last'.err = "nil" /\ last'.mode = "primary"
    /\ last'.ref # T /\ last'.id = tagged[T].src
    /\ T \in primaryRefs[tagged[T].id] /\ T \in DOMAIN remote

\* t: the result of CheckReference of T after the removal
C3_Survives(T, t) ==
    /\ t.err = "nil" /\ t.id = tagged[T].id
    /\ t.id \in DOMAIN metadata'
    /\ T \in DOMAIN remote'

\* C3: after AddTag(A, T) succeeded, the successful removal of a name of A by
\* name leaves T resolvable to the same image ID, leaves the metadata of the
\* image in the cache and leaves T in the remote store.
C3_TagSurvivesRemoval ==
    [][\A T \in DOMAIN tagged :
           C3_Removal(T) => C3_Survives(T, CheckReference(NextStore, T))]_vars

\* the step is a removal by identity without force
C4_Step == last'.op = "RemoveImage" /\ last'.mode = "identity" /\ ~last'.force

\* C4 as claimed: the removal by identity without force is refused exactly
\* when the primary references of the image have more than one locator, and a
\* refusal removes nothing.
C4_RefusedByPrimaryLocators ==
    [][C4_Step =>
           /\ (last'.err = "ErrConflict")
                  <=> ~uniqueLocatorReference(primaryRefs[last'.id])
           /\ last'.err = "ErrConflict" => UNCHANGED storeVars]_vars

\* C4 as amended: the removal by identity without force is refused exactly
\* when the references of the image, primary and searchable, have more than
\* one locator, and a refusal removes nothing.
C4_RefusedByAllLocators ==
    [][C4_Step =>
           /\ (last'.err = "ErrConflict")
                  <=> ~uniqueLocatorReference(primaryRefs[last'.id] \cup searchRefs[last'.id])
           /\ last'.err = "ErrConflict" => UNCHANGED storeVars]_vars

\* a removal by identity without force was refused for an image whose primary
\* references have one locator
C4_Witness ==
    /\ last.op = "RemoveImage" /\ last.mode = "identity" /\ ~last.force
    /\ last.err = "ErrConflict"
    /\ primaryRefs[last.id] # {}
    /\ uniqueLocatorReference(primaryRefs[last.id])

\* C5: when the removal by identity returns without error, every primary
\* reference that the image had is gone from the remote store and from the
\* local store, the image has no primary reference, its metadata is evicted
\* and CheckReference of its ID fails with NotFound.
C5_IdentityRemovesAll ==
    [][(last'.op = "RemoveImage" /\ last'.mode = "identity" /\ last'.err = "nil") =>
           /\ \A r \in primaryRefs[last'.id] :
                  r \notin DOMAIN remote' /\ r \notin DOMAIN idByRef'
           /\ primaryRefs'[last'.id] = {}
           /\ last'.id \notin DOMAIN metadata'
           /\ CheckReference(NextStore, last'.id).err = "ErrNotfound"]_vars

\* a removal by identity removed two primary references
C5_Witness ==
    /\ last.op = "RemoveImage" /\ last.mode = "identity" /\ last.err = "nil"
    /\ Cardinality(last.removed) >= 2

(***************************************************************************)
(* Properties of LookupImageReferences                                     *)
(***************************************************************************)
\* the prefix of ref before its first '/' has a '.' or a ':'
ExplicitDomain(ref) ==
    /\ IndexRune(ref, "/") # 0
    /\ \E i \in 1..(IndexRune(ref, "/") - 1) : ref[i] \in {".", ":"}

\* the prefix of ref before its first '/', and what follows the '/'
DomainOf(ref) == SubSeq(ref, 1, IndexRune(ref, "/") - 1)
RemainderOf(ref) == SubSeq(ref, IndexRune(ref, "/") + 1, Len(ref))

\* C6: for a reference without explicit domain the candidates are one per
\* mirror, in the order of the mirrors, then one of the default registry, which
\* is the last; for a reference with an explicit domain there is one
\* candidate, of that domain.
C6_CandidateOrder ==
    pure.op = "LookupImageReferences" =>
        IF ExplicitDomain(pure.ref)
        THEN /\ Len(pure.out) = 1
             /\ HasPrefix(pure.out[1], DomainOf(pure.ref) \o <<"/">>)
        ELSE /\ Len(pure.out) = Len(pure.mirrors) + 1
             /\ \A i \in 1..Len(pure.mirrors) :
                    /\ HasPrefix(pure.out[i], pure.mirrors[i] \o <<"/">>)
                    /\ ~HasPrefix(pure.out[i], DefaultRegistry \o <<"/">>)
             /\ HasPrefix(pure.out[Len(pure.out)], DefaultRegistry \o <<"/">>)

\* the candidates of a reference without domain for two mirrors, the second
\* mirror of the universe first
C6_Witness ==
    /\ pure.op = "LookupImageReferences"
    /\ pure.ref = Str_ns_u
    /\ pure.mirrors = <<Mirror2, Mirror1>>
    /\ Len(pure.out) = 3

\* the last candidate for the registry and the remainder
LastCandidate(registry, remainder) ==
    IF registry = DefaultRegistry /\ \A i \in 1..Len(remainder) : remainder[i] # "/"
    THEN registry \o <<"/">> \o DefaultNamespace \o <<"/">> \o remainder
    ELSE registry \o <<"/">> \o remainder

\* C7: the default namespace goes before the remainder exactly when the
\* registry is the default registry, defaulted or given, and the remainder has
\* no '/'; the candidates of the mirrors are mirror/reference without the
\* default namespace.
C7_DefaultNamespace ==
    pure.op = "LookupImageReferences" =>
        IF ExplicitDomain(pure.ref)
        THEN pure.out[Len(pure.out)] = LastCandidate(DomainOf(pure.ref), RemainderOf(pure.ref))
        ELSE /\ pure.out[Len(pure.out)] = LastCandidate(DefaultRegistry, pure.ref)
             /\ \A i \in 1..Len(pure.mirrors) :
                    pure.out[i] = pure.mirrors[i] \o <<"/">> \o pure.ref

\* the default registry is given and the remainder has one element
C7_Witness ==
    /\ pure.op = "LookupImageReferences"
    /\ pure.ref = Str_reg_u
    /\ pure.out = <<DefaultRegistry \o <<"/">> \o DefaultNamespace \o <<"/", "u">>>>

(***************************************************************************)
(* Properties of ImageHistory                                              *)
(***************************************************************************)
\* the number of entries of h, among the first n, that are not empty layers
NonEmpty(h, n) == Cardinality({k \in 1..n : ~h[k].EmptyLayer})

\* the item i of the result is the entry i from the top; it has size 0 if it
\* is an empty layer and else the size of the layer that has as many layers
\* from it to the top as the result has non-empty items down to i
C8_Item(i) ==
    /\ pure.history[i].CreatedBy = pure.History[Len(pure.History) - i + 1].CreatedBy
    /\ pure.history[i].EmptyLayer = pure.History[Len(pure.History) - i + 1].EmptyLayer
    /\ pure.history[i].Size =
           IF pure.history[i].EmptyLayer THEN 0
           ELSE pure.Layers[Len(pure.Layers) - NonEmpty(pure.history, i) + 1]

\* C8: when the history has as many non-empty entries as the manifest has
\* layers, ImageHistory returns as many items as the history has entries, in
\* reverse order; the k-th non-empty item from the top has the size of the
\* k-th layer from the top and an empty-layer item has size 0.
C8_HistorySizes ==
    (pure.op = "ImageHistory" /\ NonEmpty(pure.History, Len(pure.History)) = Len(pure.Layers)) =>
        /\ pure.err = "nil"
        /\ Len(pure.history) = Len(pure.History)
        /\ \A i \in 1..Len(pure.history) : C8_Item(i)

\* a history of a non-empty, an empty and a non-empty entry for two layers of
\* different sizes
C8_Witness ==
    /\ pure.op = "ImageHistory"
    /\ Len(pure.History) = 3
    /\ ~pure.History[1].EmptyLayer /\ pure.History[2].EmptyLayer /\ ~pure.History[3].EmptyLayer
    /\ Len(pure.Layers) = 2 /\ pure.Layers[1] # pure.Layers[2]
    /\ Len(pure.history) = 3

\* the errors of the layer count
IntegrityErrors == {"ErrLayersLess", "ErrLayersGreater"}

\* C9: ImageHistory fails with an integrity error exactly when the number of
\* non-empty history entries differs from the number of layers of the
\* manifest, and then it returns no history.
C9_IntegrityError ==
    pure.op = "ImageHistory" =>
        /\ pure.err \in IntegrityErrors
               <=> NonEmpty(pure.History, Len(pure.History)) # Len(pure.Layers)
        /\ pure.err # "nil" => pure.history = <<>>

\* the history is empty and the manifest has a layer
C9_Witness ==
    /\ pure.op = "ImageHistory"
    /\ pure.History = <<>> /\ Len(pure.Layers) > 0
    /\ pure.err \in IntegrityErrors

(***************************************************************************)
(* Properties of ListImages                                                *)
(***************************************************************************)
\* a is later than b
Later(a, b) == a.sec > b.sec \/ (a.sec = b.sec /\ a.nsec > b.nsec)

\* the image ID of the image of a filter
FilterID(images) == CheckReference(TheStore, images[1]).id

\* the images of the cache created after the image since and before the image before
Between(before, since) ==
    {id \in DOMAIN metadata :
         /\ Len(since) = 1 => Later(Created(id), Created(FilterID(since)))
         /\ Len(before) = 1 => Later(Created(FilterID(before)), Created(id))}

\* C10: with a since image created at S and a before image created at B,
\* ListImages returns the images of the cache created after S and before B, and
\* no other: not the images of the filters, not an image created at S or at B.
C10_StrictlyBetween ==
    (pure.op = "ListImages" /\ pure.err = "nil") =>
        {info.ID : info \in pure.images} = Between(pure.before, pure.since)

\* both filters are given, an image is listed and an image that is not the
\* since image is left out because it was created when the since image was
C10_Witness ==
    /\ pure.op = "ListImages" /\ pure.err = "nil"
    /\ Len(pure.since) = 1 /\ Len(pure.before) = 1
    /\ pure.images # {}
    /\ \E id \in DOMAIN metadata :
           /\ id # FilterID(pure.since)
           /\ Created(id) = Created(FilterID(pure.since))
           /\ id \notin {info.ID : info \in pure.images}

(***************************************************************************)
(* Properties of the reference filter of ListImages                        *)
(***************************************************************************)
\* the name matches a pattern of the filter
MatchesSome(reference, name) ==
    \E k \in 1..Len(reference) : GlobMatch(reference[k], 1, name, 1)

\* the tag names and the digest names of the image in the local store
NamesOf(id) == TagRefs(primaryRefs[id] \cup searchRefs[id])
                   \cup DigestRefs(primaryRefs[id] \cup searchRefs[id])

\* the images of the cache that the since filter of the call p leaves
Candidates(p) == Between(p.before, p.since)

\* the call p listed the images with a matching name, each with its matching names
C11_Listed(p) ==
    /\ {info.ID : info \in p.images}
           = {id \in Candidates(p) : \E n \in NamesOf(id) : MatchesSome(p.reference, n)}
    /\ \A info \in p.images :
           /\ info.RepoTags
                  = {n \in TagRefs(NamesOf(info.ID)) : MatchesSome(p.reference, n)}
           /\ info.RepoDigests
                  = {n \in DigestRefs(NamesOf(info.ID)) : MatchesSome(p.reference, n)}

\* C11: with a reference filter, ListImages returns an image exactly when one
\* of its tag names or digest names matches one of the patterns, reports for it
\* exactly its names that match a pattern, and leaves the references of the
\* local store as they are.
C11_ReferenceFilter ==
    [][(pure'.op = "ListImages" /\ pure'.err = "nil" /\ Len(pure'.reference) > 0) =>
           /\ C11_Listed(pure')
           /\ UNCHANGED <<primaryRefs, searchRefs, idByRef>>]_vars

\* a reference filter of two patterns listed an image without one of its
\* names and left out another image of the cache
C11_Witness ==
    /\ pure.op = "ListImages" /\ pure.err = "nil" /\ Len(pure.reference) = 2
    /\ \E info \in pure.images : info.RepoTags \cup info.RepoDigests # NamesOf(info.ID)
    /\ \E id \in Candidates(pure) : id \notin {info.ID : info \in pure.images}

(***************************************************************************)
(* Properties of CheckReference                                            *)
(***************************************************************************)
\* the search for the input as given
FirstSearch(idOrRef) == Search(TheStore, Parse(idOrRef))

\* the input with the default registry and namespace
Qualified(idOrRef) == addDefaultRegistryIfMissing(idOrRef)

\* the second search takes place
SearchedTwice(idOrRef) ==
    /\ FirstSearch(idOrRef).err = "ErrNotfound"
    /\ Qualified(idOrRef) # idOrRef
    /\ ~Parse(Qualified(idOrRef)).err

\* the search that decides: the second if it takes place, else the first
Deciding(idOrRef) ==
    IF SearchedTwice(idOrRef) THEN Search(TheStore, Parse(Qualified(idOrRef)))
    ELSE FirstSearch(idOrRef)

\* the lookup p of a reference that parses
C12_Lookup(p) == p.op = "CheckReference" /\ ~Parse(p.idOrRef).err

\* C12: CheckReference searches for the input as given and, only after a
\* NotFound and only if the default registry and namespace change the input,
\* once more for the qualified input; it fails with NotFound exactly when no
\* search matches or the image found has no primary reference; it does not
\* change the store.
C12_TwoPassLookup ==
    [][C12_Lookup(pure') =>
           /\ (pure'.err = "ErrNotfound")
                  <=> \/ Deciding(pure'.idOrRef).err = "ErrNotfound"
                      \/ /\ Deciding(pure'.idOrRef).err = "nil"
                         /\ primaryRefs[Deciding(pure'.idOrRef).id] = {}
           /\ pure'.err = "nil" => pure'.id = Deciding(pure'.idOrRef).id
           /\ pure'.err \notin {"nil", "ErrNotfound"}
                  => pure'.err = FirstSearch(pure'.idOrRef).err
           /\ UNCHANGED storeVars]_vars

\* a lookup found nothing for the input as given and found the image for the
\* qualified input
C12_Witness ==
    /\ C12_Lookup(pure) /\ pure.err = "nil"
    /\ FirstSearch(pure.idOrRef).err = "ErrNotfound"
    /\ SearchedTwice(pure.idOrRef)

\* a short ID of two images is refused and not searched for a second time
C12_WitnessAmbiguous ==
    /\ C12_Lookup(pure) /\ pure.err = "ErrAmbiguous"
    /\ Qualified(pure.idOrRef) # pure.idOrRef

\* the match was by ID, by short ID or by name only
ByIdentity(p) == IsNamedOnly(p.ref) \/ HasPrefix(p.id, RefString(p.ref))

\* C13: when CheckReference succeeds, the primary reference it returns is a
\* primary reference of the image ID it returns; for a reference that is itself
\* primary it is that reference.
C13_PrimaryOfDigest ==
    (pure.op = "CheckReference" /\ pure.err = "nil") =>
        /\ pure.prims # {}
        /\ pure.prims \subseteq primaryRefs[pure.id]
        /\ \A r \in pure.prims : r \in DOMAIN idByRef /\ idByRef[r] = pure.id
        /\ (~ByIdentity(pure) /\ RefString(pure.ref) \in primaryRefs[pure.id])
               => pure.prims = {RefString(pure.ref)}

\* a lookup by a digest reference, which is not primary, returned the primary
\* reference of its image, and the image has a second primary reference
C13_Witness ==
    /\ pure.op = "CheckReference" /\ pure.err = "nil"
    /\ ~ByIdentity(pure)
    /\ RefString(pure.ref) \notin primaryRefs[pure.id]
    /\ Cardinality(primaryRefs[pure.id]) > 1

(***************************************************************************)
(* Properties of AddTag and RemoveImage                                    *)
(***************************************************************************)
\* the target of the tag with the default registry, namespace and tag
TargetRef(target) == parseTagReference(addDefaultRegistryIfMissing(target))

\* the string is a primary reference of an image
IsPrimary(r) == \E id \in AllIDs : r \in primaryRefs[id]

\* the target of the tag has a digest or is the primary reference of an image
C14_Rejected(target) ==
    IsDigested(TargetRef(target)) \/ IsPrimary(RefString(TargetRef(target)))

\* C14: AddTag fails with InvalidParam when the target has a digest or is,
\* qualified and with the default tag, the primary reference of an image; the
\* local store and the remote store are then unchanged; a target that is not
\* registered passes the validation.
C14_TargetValidation ==
    [][last'.op = "AddTag" =>
           /\ C14_Rejected(last'.target)
                  => last'.err = "ErrInvalidParam" /\ UNCHANGED storeVars
           /\ (~IsDigested(TargetRef(last'.target))
                   /\ RefString(TargetRef(last'.target)) \notin DOMAIN idByRef)
                  => last'.err # "ErrInvalidParam"]_vars

\* a tag onto the primary reference of an image was refused, for a source
\* that resolves to another image
C14_Witness ==
    /\ last.op = "AddTag" /\ last.err = "ErrInvalidParam"
    /\ ~IsDigested(TargetRef(last.target))
    /\ IsPrimary(RefString(TargetRef(last.target)))
    /\ CheckReference(TheStore, last.arg).err = "nil"
    /\ CheckReference(TheStore, last.arg).id # idByRef[RefString(TargetRef(last.target))]

\* a tag with a digest was refused
C14_WitnessDigest ==
    /\ last.op = "AddTag" /\ last.err = "ErrInvalidParam"
    /\ IsDigested(TargetRef(last.target))

(***************************************************************************)
(* Properties of PullImage                                                 *)
(***************************************************************************)
\* the places of the items of the kind in the stream
Places(stream, kind) == {i \in 1..Len(stream) : stream[i].kind = kind}

\* the call p of PullImage got past the parsing of the reference
PastParsing(p) == p.op = "PullImage" /\ p.err # "ErrInvalidReference"

\* C15: in every execution of PullImage that gets past the parsing of the
\* reference, whatever the outcome, the progress stream is closed once and
\* waited for once, in this order, before PullImage returns, and nothing is
\* written to it afterwards.
C15_StreamClosedOnce ==
    PastParsing(last) =>
        /\ Cardinality(Places(last.stream, "close")) = 1
        /\ Cardinality(Places(last.stream, "wait")) = 1
        /\ \A c \in Places(last.stream, "close") :
               /\ Places(last.stream, "wait") = {c + 1}
               /\ \A e \in Places(last.stream, "error") : e < c

\* a pull whose store failed after the transfer has closed its stream
C15_Witness ==
    /\ PastParsing(last)
    /\ last.err \notin {"nil", "ErrPull", "ErrCanceled", "ErrPostPull"}
    /\ Places(last.stream, "close") # {}

\* a cancelled pull has closed its stream
C15_WitnessCancel ==
    /\ PastParsing(last) /\ last.err = "ErrCanceled"
    /\ Places(last.stream, "close") # {}

(***************************************************************************)
(* More properties of RemoveImage and PullImage                            *)
(***************************************************************************)
\* c: the result of CheckReference for an argument that names a reference
\* which is not a primary reference of its image
NonPrimary(c) ==
    /\ c.err = "nil"
    /\ ~IsIdentity(c)
    /\ RefString(TrimTagForDigest(c.ref)) \notin primaryRefs[c.id]

\* the store maps without the reference r
WithoutRef(f, r) == [x \in (DOMAIN f) \ {r} |-> f[x]]

\* C16: the removal of a reference that is not a primary reference of its
\* image does not call the client: it deletes that reference from the local
\* store and no other, emits an untag event, and leaves the primary references,
\* the metadata and the remote store unchanged.
C16_UntagIsLocal ==
    [][(last'.op = "RemoveImage" /\ NonPrimary(CheckReference(TheStore, last'.arg))) =>
           /\ last'.mode = "untag" /\ last'.err = "nil"
           /\ last'.events = <<<<"untag", last'.ref>>>>
           /\ UNCHANGED <<remote, primaryRefs, metadata>>
           /\ searchRefs' = [searchRefs EXCEPT ![last'.id] = @ \ {last'.ref}]
           /\ idByRef' = WithoutRef(idByRef, last'.ref)]_vars

\* a digest reference of an image was removed by its name
C16_Witness ==
    /\ last.op = "RemoveImage" /\ last.mode = "untag"
    /\ IsDigested(Parse(last.ref))
    /\ last.ref \notin DOMAIN idByRef
    /\ primaryRefs[last.id] # {}

\* C17: when a RemoveImage call that resolved its reference returns, with or
\* without error, the metadata of the image is evicted if the image has no
\* primary reference left and is as before if it has one; the metadata of the
\* other images is as before.
C17_EvictionOnReturn ==
    [][(last'.op = "RemoveImage" /\ last'.mode # "none") =>
           /\ primaryRefs'[last'.id] = {} => last'.id \notin DOMAIN metadata'
           /\ primaryRefs'[last'.id] # {}
                  => (last'.id \in DOMAIN metadata' <=> last'.id \in DOMAIN metadata)
           /\ \A id \in AllIDs \ {last'.id} :
                  id \in DOMAIN metadata' <=> id \in DOMAIN metadata]_vars

\* a removal by identity failed at its second call of the client and the
\* metadata of the image is kept with the primary reference that is left
C17_Witness ==
    /\ last.op = "RemoveImage" /\ last.mode = "identity" /\ last.err = "ErrRemote"
    /\ last.removed # {}
    /\ primaryRefs[last.id] # {}
    /\ last.id \in DOMAIN metadata

\* a removal failed at the client after the last primary reference was
\* removed from the local store, and the metadata is evicted
C17_WitnessEvicted ==
    /\ last.op = "RemoveImage" /\ last.mode = "primary" /\ last.err = "ErrRemote"
    /\ primaryRefs[last.id] = {}
    /\ last.id \notin DOMAIN metadata

\* C19: when the transfer of PullImage fails, one error message with the text
\* of the error is written to the stream before it is closed, the same error
\* is returned, the hook is not run, no pull event is emitted and the local
\* store is unchanged.
C19_TransferFailure ==
    [][(last'.op = "PullImage" /\ last'.outcome \in {"pullFail", "cancel"}
            /\ last'.err # "ErrInvalidReference") =>
           /\ last'.err = PullError(last'.outcome)
           /\ Cardinality(Places(last'.stream, "error")) = 1
           /\ \A e \in Places(last'.stream, "error") :
                  /\ last'.stream[e].msg = last'.err
                  /\ \E c \in Places(last'.stream, "close") : e < c
           /\ \A i \in 1..Len(last'.steps) : last'.steps[i] # "PostPull"
           /\ last'.events = <<>>
           /\ UNCHANGED <<primaryRefs, searchRefs, idByRef, metadata>>]_vars

\* a transfer failed for a reference that the local store holds
C19_Witness ==
    /\ last.op = "PullImage" /\ last.outcome = "pullFail" /\ last.err = "ErrPull"
    /\ Places(last.stream, "error") # {}
    /\ \E r \in DOMAIN idByRef : HasPrefix(r, OtherRegistry) /\ last.arg = r

\* the place of the step in the steps of the call, 0 if it is not there
StepOf(steps, step) ==
    IF \E i \in 1..Len(steps) : steps[i] = step
    THEN CHOOSE i \in 1..Len(steps) : steps[i] = step
    ELSE 0

\* C20: a pull event is emitted only by a PullImage call whose transfer
\* succeeded, whose hook completed before the event and whose image is stored
\* in the local store: no call emits the event and fails to store the image.
C20_PullEventOnlyIfStored ==
    (last.op = "PullImage" /\ last.events # <<>>) =>
        /\ last.outcome = "ok"
        /\ 0 < StepOf(last.steps, "PostPull")
        /\ StepOf(last.steps, "PostPull") < StepOf(last.steps, "LogImageEvent")
        /\ last.err = "nil"
        /\ \A i \in 1..Len(last.events) : last.events[i][2] \in DOMAIN idByRef

(***************************************************************************)
(* Properties of calls that run at the same time                           *)
(***************************************************************************)
\* a StoreImageReference call for the image id is between the insert of its
\* references and the caching of its metadata
Storing(id) ==
    \E t \in 1..MaxThreads :
        /\ threads[t].op = "PullImage"
        /\ threads[t].id = id
        /\ threads[t].pc \in {"searchDigest", "addDigest", "cache"}

\* C18: whatever the interleaving of the calls, every image that a reference
\* of the local store resolves to has its metadata cached, except while a
\* StoreImageReference call for it is between the insert of its references
\* and the caching of its metadata; so it has once all the calls returned.
C18_MetadataForReferences ==
    \A r \in DOMAIN idByRef : idByRef[r] \in DOMAIN metadata \/ Storing(idByRef[r])

(***************************************************************************)
(* Properties of StoreImageReference                                       *)
(***************************************************************************)
\* the call l ran StoreImageReference
Stored(l) ==
    \/ l.op = "StoreImageReference"
    \/ l.op = "PullImage" /\ StepOf(l.steps, "StoreImageReference") > 0

\* the name of the image that the call l stored
StoredName(l) == IF l.op = "StoreImageReference" THEN l.arg ELSE l.events[1][2]

\* the references of the image name are in the store st for the image id
StoredFor(name, id) ==
    /\ name \in primaryRefs'[id]
    /\ IsNameTagged(Parse(name))
           => RefString(WithDigest(Parse(name), TargetDigest(id))) \in DOMAIN idByRef'
    /\ id \in DOMAIN metadata'

\* C21: StoreImageReference caches the metadata of an image only after its
\* primary reference and its digest reference are inserted; when an insert
\* fails it returns the error and the metadata is neither created nor
\* overwritten.
C21_CacheAfterInserts ==
    [][Stored(last') =>
           /\ last'.err # "nil" => metadata' = metadata
           /\ last'.err = "nil" => StoredFor(StoredName(last'), remote'[StoredName(last')])]_vars

\* StoreImageReference failed at the insert of the primary reference of an
\* image that has no metadata
C21_Witness ==
    /\ Stored(last) /\ last.err = "ErrUsed"
    /\ remote[StoredName(last)] \notin DOMAIN metadata

\* the reference name@M derived from the reference name:tag of the image id
DerivedRef(name, id) == RefString(WithDigest(Parse(name), TargetDigest(id)))

\* C22: for every tag-qualified primary reference name:tag of an image with
\* manifest digest M the derived reference name@M is in the store and resolves
\* to the same image.
C22_DerivedDigestReference ==
    \A id \in DOMAIN primaryRefs :
        \A name \in primaryRefs[id] :
            IsNameTagged(Parse(name)) =>
                /\ DerivedRef(name, id) \in DOMAIN idByRef
                /\ idByRef[DerivedRef(name, id)] = id

\* the derived reference of the primary reference name of the image id is in
\* the store after the step and resolves to id
DerivedPresent(name, id) ==
    /\ DerivedRef(name, id) \in DOMAIN idByRef'
    /\ idByRef'[DerivedRef(name, id)] = id

\* the derived reference of the primary reference name of the image id was
\* missing before the step
DerivedMissing(name, id) ==
    /\ name \in primaryRefs[id]
    /\ DerivedRef(name, id) \notin DOMAIN idByRef

\* C22 (amended): a successful StoreImageReference or AddTag of name:tag leaves
\* name@M in the store, resolving to the image of name:tag, and a later step
\* leaves a tag-qualified primary reference without its name@M only if it is
\* a RemoveImage call that removed name@M itself.
C22_DerivedUntilRemoved ==
    [][/\ (Stored(last') /\ last'.err = "nil" /\ IsNameTagged(Parse(StoredName(last'))))
            => DerivedPresent(StoredName(last'), remote'[StoredName(last')])
       /\ (last'.op = "AddTag" /\ last'.err = "nil")
            => DerivedPresent(last'.tagRef, last'.id)
       /\ \A id \in DOMAIN primaryRefs' :
              \A name \in primaryRefs'[id] :
                  IsNameTagged(Parse(name)) =>
                      \/ DerivedPresent(name, id)
                      \/ DerivedMissing(name, id)
                      \/ /\ last'.op = "RemoveImage"
                         /\ DerivedRef(name, id) \in last'.removed]_vars

\* a tag was stored with its derived reference and is a primary reference
C22_Witness ==
    /\ Stored(last) /\ last.err = "nil" /\ last.op = "PullImage"
    /\ IsNameTagged(Parse(StoredName(last)))
    /\ StoredName(last) \in primaryRefs[remote[StoredName(last)]]
    /\ DerivedRef(StoredName(last), remote[StoredName(last)]) \in DOMAIN idByRef

\* a named removal deleted the derived reference of a tag that stays a primary
\* reference of the image
C22_WitnessRemoved ==
    /\ last.op = "RemoveImage" /\ last.mode = "untag"
    /\ \E name \in primaryRefs[last.id] :
           /\ IsNameTagged(Parse(name))
           /\ last.ref = DerivedRef(name, last.id)
           /\ last.ref \notin DOMAIN idByRef

\* C23: after StoreImageReference persisted an image, persisting the same image
\* (same name, same config digest, same manifest digest) again returns no error
\* and leaves the references, their kinds and the metadata of the local store
\* as they are.
C23_RepullIdempotent ==
    (Stored(last) /\ last.err = "nil") =>
        StoreImageReferenceOp(TheStore, [name |-> StoredName(last),
                                         id |-> remote[StoredName(last)]])
            = [err |-> "nil", st |-> TheStore]

\* a tag-qualified image was persisted, with its digest reference
C23_Witness ==
    /\ Stored(last) /\ last.err = "nil"
    /\ IsNameTagged(Parse(StoredName(last)))
    /\ DerivedRef(StoredName(last), remote[StoredName(last)]) \in
           searchRefs[remote[StoredName(last)]]
    /\ remote[StoredName(last)] \in DOMAIN metadata

(***************************************************************************)
(* Properties of the named removal                                         *)
(***************************************************************************)
\* c: the result of CheckReference for an argument that names one reference of
\* an image with its digest
NamedByDigest(c) == c.err = "nil" /\ ~IsIdentity(c) /\ IsDigested(c.ref)

\* C24: a named removal whose input has a digest strips the digest and removes
\* the reference that is left, the underlying tag reference.
C24_DigestStripped ==
    [][(last'.op = "RemoveImage" /\ NamedByDigest(CheckReference(TheStore, last'.arg))) =>
           last'.removed = {RefString(StripDigest(CheckReference(TheStore, last'.arg).ref))}]_vars

\* C24 (amended): a named removal whose input has a digest keeps the digest
\* and strips the tag: name@digest is what is compared with the primary
\* reference of the image and what is removed, and the references with a tag
\* stay unless the image lost its last primary reference.
C24_DigestKept ==
    [][(last'.op = "RemoveImage" /\ NamedByDigest(CheckReference(TheStore, last'.arg))) =>
           /\ last'.removed =
                  {RefString(TrimTagForDigest(CheckReference(TheStore, last'.arg).ref))}
           /\ IsDigested(Parse(last'.ref)) /\ ~IsNameTagged(Parse(last'.ref))
           /\ last'.ref \notin DOMAIN idByRef'
           /\ (last'.mode = "primary") = (last'.ref \in primaryRefs[last'.id])
           /\ (last'.mode = "untag") = (last'.ref \notin primaryRefs[last'.id])
           /\ primaryRefs'[last'.id] = primaryRefs[last'.id] \ {last'.ref}]_vars

\* the named removal of name@digest left name:tag a primary reference
C24_Witness ==
    /\ last.op = "RemoveImage" /\ last.mode \in {"primary", "untag"}
    /\ IsDigested(Parse(last.arg))
    /\ last.removed = {last.ref} /\ IsDigested(Parse(last.ref))
    /\ \E name \in primaryRefs[last.id] :
           IsNameTagged(Parse(name)) /\ Locator(name) = Locator(last.ref)

\* C25: an identity removal that fails at a call of the client stops there and
\* returns the error: the primary references of the passes before it are
\* removed from the remote store and from the local store and stay removed,
\* the other primary references are in both as before, and the metadata of the
\* image is kept with the primary references that are left.
C25_NoRollback ==
    [][(last'.op = "RemoveImage" /\ last'.mode = "identity" /\ last'.err = "ErrRemote") =>
           /\ last'.removed \subseteq primaryRefs[last'.id]
           /\ last'.removed # primaryRefs[last'.id]
           /\ \A r \in last'.removed :
                  r \notin DOMAIN remote' /\ r \notin DOMAIN idByRef'
           /\ primaryRefs' = [primaryRefs EXCEPT ![last'.id] = @ \ last'.removed]
           /\ searchRefs' = searchRefs
           /\ \A r \in (DOMAIN idByRef) \ last'.removed :
                  r \in DOMAIN idByRef' /\ idByRef'[r] = idByRef[r]
           /\ \A r \in (DOMAIN remote) \ last'.removed :
                  r \in DOMAIN remote' /\ remote'[r] = remote[r]
           /\ metadata' = metadata]_vars

\* an identity removal of an image with three primary references failed at its
\* second call of the client: one reference is removed, two are left
C25_Witness ==
    /\ last.op = "RemoveImage" /\ last.mode = "identity" /\ last.err = "ErrRemote"
    /\ Cardinality(last.removed) = 1
    /\ Cardinality(primaryRefs[last.id]) = 2
    /\ last.removed \cap DOMAIN remote = {}
    /\ primaryRefs[last.id] \subseteq DOMAIN remote
    /\ last.id \in DOMAIN metadata

\* the call after the call l is RemoveImage with the arguments of l, and no
\* call of the client fails in it
Retried(l) ==
    /\ last'.op = "RemoveImage" /\ last'.arg = l.arg /\ last'.force = l.force
    /\ last'.err # "ErrRemote"

\* C26: when the removal of a primary reference by its name failed after one of
\* its two removals, the same RemoveImage call made again with a client that
\* works leaves the reference absent from the local store and from the remote
\* store.
C26_RetryConverges ==
    [][(last.op = "RemoveImage" /\ last.mode = "primary" /\ last.err = "ErrRemote"
            /\ Retried(last)) =>
           /\ last.ref \notin DOMAIN idByRef'
           /\ last.ref \notin DOMAIN remote']_vars

(***************************************************************************)
(* Properties of the references of two images                              *)
(***************************************************************************)
\* the references of the image id in the local store
ReferencesOf(id) == primaryRefs[id] \cup searchRefs[id]

\* every reference of the local store is a reference of one image, the one
\* that the reverse lookup returns
OneDigestPerReference ==
    /\ \A id \in DOMAIN primaryRefs : ReferencesOf(id) \subseteq DOMAIN idByRef
    /\ \A r \in DOMAIN idByRef :
           \A id \in DOMAIN primaryRefs : r \in ReferencesOf(id) <=> idByRef[r] = id

\* a pull that reached StoreImageReference leaves its reference resolving to
\* the image that the registry served
PulledResolves ==
    (last'.op = "PullImage" /\ Stored(last')) =>
        /\ StoredName(last') \in DOMAIN idByRef'
        /\ idByRef'[StoredName(last')] = remote'[StoredName(last')]

\* C27: in every reachable state a reference of the local store is a reference
\* of one image only, the one that the reverse lookup returns, and after a
\* pull of a tag with new content the tag resolves to the new image.
C27_LastWriteWins == []OneDigestPerReference /\ [][PulledResolves]_vars

(***************************************************************************)
(* Properties of the removal request                                       *)
(***************************************************************************)
\* no request has force
Unforced == \A t \in 1..MaxThreads : ~threads[t].force

\* the request of the thread t, at its check, names an image that a container
\* uses, by an ID prefix or while the image has one primary reference
MustReject(t) ==
    /\ At(t, "removeImage", "listReferences")
    /\ threads[t].id \in ContainerImages
    /\ \/ Cardinality(primaryRefs[threads[t].id]) = 1
       \/ isImageIDPrefix(threads[t].id, threads[t].arg)

\* C28: without force, a request for an image that a container uses is
\* rejected when the image has one primary reference or is named by an ID
\* prefix, and the image never loses its last primary reference, whatever the
\* interleaving of the requests.
C28_InUseKeepsPrimary ==
    [][Unforced =>
           /\ \A t \in 1..MaxThreads :
                  (MustReject(t) /\ threads'[t] # threads[t]) =>
                      (threads'[t].pc = "done" /\ threads'[t].err = "ErrInUse")
           /\ \A id \in ContainerImages :
                  primaryRefs[id] # {} => primaryRefs'[id] # {}]_vars

====
